---- MODULE Spec2Model ----
(***************************************************************************)
(* A model of the PartSelect chat backend: the message sanitizer and       *)
(* entity extractor (utils/sanitizers.js), the scope detector              *)
(* (services/scopeDetectionService.js), the intent classifier              *)
(* (services/intentClassificationService.js), the agent orchestrator       *)
(* (services/agentOrchestrator.js) and the chat controller                 *)
(* (controllers/chatController.js) with the session store it writes.       *)
(*                                                                         *)
(* JavaScript strings are sequences of one-character strings, so that      *)
(* splitting, substring search and the regular expressions are computed    *)
(* character by character as the code computes them.  Confidences are in   *)
(* hundredths (0.95 is 95, 1.0 is 100).                                    *)
(***************************************************************************)
EXTENDS Integers, Sequences, FiniteSets, TLC

VARIABLES
  fn,            \* the exported function called last ("none" before any call)
  arg,           \* the argument it was called with
  ret,           \* what the call produced: a value, or a thrown error
  pc,            \* position of the chat request inside handleChatMessage
  body,          \* req.body of the chat request being handled
  sessionId,     \* handleChatMessage's sessionId
  messageId,     \* handleChatMessage's messageId
  preprocessResult, \* result of messageService.preprocessMessage
  scopeResult,   \* result of scopeDetectionService.detectScope
  intentResult,  \* result of intentClassificationService.classifyIntent
  orchestratorResult, \* result of agentOrchestrator.processMessage
  response,      \* what the request was answered with (res.json or next(error))
  sessionStore,  \* sessionService's in-memory Map: session id -> session
  nextMessageId, \* number of message ids generated so far
  calls,         \* services invoked by the request being handled, in order
  requests,      \* number of chat requests received so far
  now,           \* the clock read by getCurrentTimestamp
  lastIndex,     \* lastIndex of the RegExp objects of CONSTANTS.PATTERNS
  history,       \* the calls made on the services so far, with their results
  storeBefore,   \* sessionStore as the chat request being handled found it
  shutdown,      \* what gracefulShutdown found and cleared, once it has run
  inflight       \* the chat requests handled concurrently, each at its await

vars == << fn, arg, ret, pc, body, sessionId, messageId, preprocessResult,
           scopeResult, intentResult, orchestratorResult, response,
           sessionStore, nextMessageId, calls, requests, now, lastIndex,
           history, storeBefore, shutdown, inflight >>

callVars == << fn, arg, ret, lastIndex, history, inflight >>
chatVars == << pc, body, sessionId, messageId, preprocessResult, scopeResult,
               intentResult, orchestratorResult, response, sessionStore,
               nextMessageId, calls, requests, now, storeBefore, shutdown >>

----------------------------------------------------------------------------
(* Bounds of the model. *)

\* longest message, in words, built from Vocabulary
MaxWords == 2
\* most repetitions of one partially matching word in a score probe
MaxPartial == 6
\* chat requests handled in one behaviour
MaxRequests == 2
\* session ids (uuids) in use
NumSessionIds == 2
\* last instant of the clock
MaxTime == 1
\* longest text, in characters, built from TextAlphabet
MaxChars == 4
MaxCalls == 3
\* longest text, in characters, built from HtmlAlphabet
MaxHtmlChars == 3
\* chat requests handled concurrently
MaxInflight == 2

----------------------------------------------------------------------------
(* Characters and JavaScript string primitives. *)

UpperLetters == <<"A","B","C","D","E","F","G","H","I","J","K","L","M","N","O","P","Q","R","S","T","U","V","W","X","Y","Z">>
LowerLetters == <<"a","b","c","d","e","f","g","h","i","j","k","l","m","n","o","p","q","r","s","t","u","v","w","x","y","z">>
Digits == {"0","1","2","3","4","5","6","7","8","9"}
\* characters without a printable form are named: U+0000, U+0007, U+000B,
\* U+000C, U+001B and U+007F
NUL == "NUL"
BEL == "BEL"
VT == "VT"
FF == "FF"
ESC == "ESC"
DEL == "DEL"
\* the characters of the class \s that occur in the modelled messages
Whitespace == {" ", "\t", "\n", "\r", VT, FF}

Range(s) == { s[i] : i \in 1..Len(s) }
IndexOf(c, s) == CHOOSE i \in 1..Len(s) : s[i] = c
Min(a, b) == IF a < b THEN a ELSE b

IsSpace(c) == c \in Whitespace
IsDigit(c) == c \in Digits
IsUpper(c) == c \in Range(UpperLetters)
IsLower(c) == c \in Range(LowerLetters)
\* [A-Z], which also matches a-z under the regex flag i
IsLetter(c, ignoreCase) == IsUpper(c) \/ (ignoreCase /\ IsLower(c))

ToUpperChar(c) == IF IsLower(c) THEN UpperLetters[IndexOf(c, LowerLetters)] ELSE c
ToLowerChar(c) == IF IsUpper(c) THEN LowerLetters[IndexOf(c, UpperLetters)] ELSE c
\* String.prototype.toUpperCase / toLowerCase
ToUpperCase(s) == [i \in 1..Len(s) |-> ToUpperChar(s[i])]
ToLowerCase(s) == [i \in 1..Len(s) |-> ToLowerChar(s[i])]

\* String.prototype.includes
Includes(hay, needle) ==
  \E i \in 0..(Len(hay) - Len(needle)) :
     \A j \in 1..Len(needle) : hay[i + j] = needle[j]

\* String.prototype.startsWith
StartsWith(s, prefix) ==
  /\ Len(prefix) <= Len(s)
  /\ \A j \in 1..Len(prefix) : s[j] = prefix[j]

\* first index >= i of s that holds no whitespace (Len(s)+1 if none)
RECURSIVE SkipSpaces(_, _)
SkipSpaces(s, i) ==
  IF i <= Len(s) /\ IsSpace(s[i]) THEN SkipSpaces(s, i + 1) ELSE i

\* the indices 1..n in increasing order
Indices(n) == [ i \in 1..n |-> i ]

\* the concatenation of a sequence of strings
RECURSIVE Flatten(_)
Flatten(seqs) ==
  IF Len(seqs) = 0 THEN <<>>
  ELSE IF Len(seqs) = 1 THEN seqs[1]
  ELSE LET half == Len(seqs) \div 2
       IN Flatten(SubSeq(seqs, 1, half)) \o Flatten(SubSeq(seqs, half + 1, Len(seqs)))

\* the maximal runs of characters of s that are no separators, in order;
\* sep[i] tells whether s[i] is a separator
Pieces(s, sep) ==
  LET n == Len(s)
      starts == SelectSeq(Indices(n), LAMBDA i : ~sep[i] /\ (i = 1 \/ sep[i - 1]))
      ends == SelectSeq(Indices(n), LAMBDA j : ~sep[j] /\ (j = n \/ sep[j + 1]))
  IN <<>> \o [ k \in 1..Len(starts) |-> SubSeq(s, starts[k], ends[k]) ]

\* message.split(/\s+/): the pieces between whitespace runs; a leading or
\* trailing run leaves an empty piece, and "" splits to [""]
SplitWhitespace(s) ==
  IF s = <<>> THEN << <<>> >>
  ELSE (IF IsSpace(s[1]) THEN << <<>> >> ELSE <<>>)
       \o Pieces(s, [ i \in 1..Len(s) |-> IsSpace(s[i]) ])
       \o (IF IsSpace(s[Len(s)]) THEN << <<>> >> ELSE <<>>)

\* tokens.join(' ')
Join(tokens) ==
  Flatten([ k \in 1..Len(tokens) |->
              IF k = 1 THEN tokens[k] ELSE <<" ">> \o tokens[k] ])

\* keyword.replace(/\s+/g, '')
RemoveWhitespace(s) == SelectSeq(s, LAMBDA c : ~IsSpace(c))

\* Array.prototype.includes / some on a sequence
Contains(seq, x) == \E i \in 1..Len(seq) : seq[i] = x

\* [...new Set(seq)]: duplicates removed, first occurrences kept in order
RECURSIVE Dedupe(_)
Dedupe(seq) ==
  IF seq = <<>> THEN <<>>
  ELSE LET rest == Dedupe(SubSeq(seq, 1, Len(seq) - 1))
           last == seq[Len(seq)]
       IN IF Contains(rest, last) THEN rest ELSE Append(rest, last)

----------------------------------------------------------------------------
(* config/constants.js *)

\* CONSTANTS.IN_SCOPE_KEYWORDS, in declaration order (duplicates kept).
IN_SCOPE_KEYWORDS ==
  << <<"p","a","r","t">>,
     <<"p","a","r","t","s">>,
     <<"c","o","m","p","o","n","e","n","t">>,
     <<"c","o","m","p","o","n","e","n","t","s">>,
     <<"r","e","p","l","a","c","e","m","e","n","t">>,
     <<"r","e","p","a","i","r">>,
     <<"f","i","x">>,
     <<"b","r","o","k","e","n">>,
     <<"i","n","s","t","a","l","l">>,
     <<"i","n","s","t","a","l","l","a","t","i","o","n">>,
     <<"s","e","t","u","p">>,
     <<"a","s","s","e","m","b","l","e">>,
     <<"c","o","m","p","a","t","i","b","l","e">>,
     <<"c","o","m","p","a","t","i","b","i","l","i","t","y">>,
     <<"w","o","r","k"," ","w","i","t","h">>,
     <<"f","i","t">>,
     <<"p","r","o","b","l","e","m">>,
     <<"i","s","s","u","e">>,
     <<"n","o","t"," ","w","o","r","k","i","n","g">>,
     <<"d","a","m","a","g","e","d">>,
     <<"r","e","p","l","a","c","e">>,
     <<"r","e","f","r","i","g","e","r","a","t","o","r">>,
     <<"r","e","f","r","i","g","e","r","a","t","o","r","s">>,
     <<"f","r","i","d","g","e">>,
     <<"f","r","i","d","g","e","s">>,
     <<"d","i","s","h","w","a","s","h","e","r">>,
     <<"d","i","s","h","w","a","s","h","e","r","s">>,
     <<"w","a","t","e","r"," ","v","a","l","v","e">>,
     <<"f","i","l","t","e","r">>,
     <<"c","o","m","p","r","e","s","s","o","r">>,
     <<"t","h","e","r","m","o","s","t","a","t">>,
     <<"f","a","n">>,
     <<"m","o","t","o","r">>,
     <<"s","e","a","l">>,
     <<"g","a","s","k","e","t">>,
     <<"h","i","n","g","e">>,
     <<"h","a","n","d","l","e">>,
     <<"s","h","e","l","f">>,
     <<"d","r","a","w","e","r">>,
     <<"i","c","e"," ","m","a","k","e","r">>,
     <<"d","i","s","p","e","n","s","e","r">>,
     <<"h","e","a","t","i","n","g"," ","e","l","e","m","e","n","t">>,
     <<"p","u","m","p">>,
     <<"s","p","r","a","y"," ","a","r","m">>,
     <<"d","o","o","r">>,
     <<"l","a","t","c","h">>,
     <<"l","e","a","k","i","n","g">>,
     <<"l","e","a","k">>,
     <<"f","r","e","e","z","e">>,
     <<"f","r","o","z","e","n">>,
     <<"c","l","o","g","g","e","d">>,
     <<"c","l","o","g">>,
     <<"n","o","i","s","e">>,
     <<"n","o","i","s","y">>,
     <<"w","o","n","'","t">>,
     <<"n","o","t"," ","w","o","r","k","i","n","g">>,
     <<"s","t","o","p","p","e","d">>,
     <<"e","r","r","o","r">>,
     <<"m","a","l","f","u","n","c","t","i","o","n">>,
     <<"b","u","y">>,
     <<"p","u","r","c","h","a","s","e">>,
     <<"n","e","e","d">>,
     <<"h","a","v","e">>,
     <<"l","o","o","k","i","n","g"," ","f","o","r">>,
     <<"f","i","n","d">>,
     <<"s","e","a","r","c","h">>,
     <<"w","h","a","t"," ","a","b","o","u","t">>,
     <<"h","o","w">>,
     <<"w","h","e","r","e">>,
     <<"c","a","n"," ","i">>,
     <<"o","r","d","e","r">>,
     <<"p","r","i","c","e">>,
     <<"c","o","s","t">>,
     <<"c","a","r","t">>,
     <<"c","h","e","c","k","o","u","t">>,
     <<"b","u","y">> >>

\* CONSTANTS.OUT_OF_SCOPE_KEYWORDS, in declaration order.
OUT_OF_SCOPE_KEYWORDS ==
  << <<"w","e","a","t","h","e","r">>,
     <<"s","t","o","c","k"," ","m","a","r","k","e","t">>,
     <<"r","e","c","i","p","e">>,
     <<"c","o","o","k","i","n","g">>,
     <<"p","o","l","i","t","i","c","s">>,
     <<"s","p","o","r","t","s">>,
     <<"n","e","w","s">>,
     <<"m","o","v","i","e">>,
     <<"b","o","o","k">>,
     <<"m","u","s","i","c">>,
     <<"t","r","a","v","e","l">>,
     <<"h","o","t","e","l">>,
     <<"f","l","i","g","h","t">>,
     <<"r","e","s","t","a","u","r","a","n","t">>,
     <<"j","o","k","e">>,
     <<"l","a","u","g","h">>,
     <<"f","u","n","n","y">> >>

\* CONSTANTS.INTENT_KEYWORDS: the trigger phrases of the five intents.
INTENT_KEYWORDS ==
  [ product_search |->
      << <<"n","e","e","d">>,
         <<"l","o","o","k","i","n","g"," ","f","o","r">>,
         <<"f","i","n","d"," ","m","e">>,
         <<"d","o"," ","y","o","u"," ","h","a","v","e">>,
         <<"i"," ","w","a","n","t">>,
         <<"s","h","o","w"," ","m","e">>,
         <<"w","h","e","r","e"," ","c","a","n"," ","i"," ","g","e","t">>,
         <<"w","h","a","t"," ","i","s">>,
         <<"t","e","l","l"," ","m","e"," ","a","b","o","u","t">> >>,
    compatibility_check |->
      << <<"c","o","m","p","a","t","i","b","l","e">>,
         <<"c","o","m","p","a","t","i","b","l","e"," ","w","i","t","h">>,
         <<"f","i","t">>,
         <<"w","o","r","k"," ","w","i","t","h">>,
         <<"s","u","p","p","o","r","t">>,
         <<"f","i","t"," ","m","y">>,
         <<"f","o","r"," ","m","y">>,
         <<"m","a","t","c","h">> >>,
    installation_guide |->
      << <<"i","n","s","t","a","l","l">>,
         <<"h","o","w"," ","t","o">>,
         <<"s","e","t","u","p">>,
         <<"a","s","s","e","m","b","l","e">>,
         <<"a","t","t","a","c","h">>,
         <<"h","o","w"," ","d","o"," ","i">>,
         <<"h","e","l","p"," ","m","e"," ","i","n","s","t","a","l","l">>,
         <<"s","t","e","p","s">> >>,
    troubleshooting |->
      << <<"b","r","o","k","e","n">>,
         <<"n","o","t"," ","w","o","r","k","i","n","g">>,
         <<"f","i","x">>,
         <<"r","e","p","a","i","r">>,
         <<"p","r","o","b","l","e","m">>,
         <<"i","s","s","u","e">>,
         <<"w","h","a","t","'","s"," ","w","r","o","n","g">>,
         <<"s","t","o","p","p","e","d">>,
         <<"l","e","a","k","i","n","g">>,
         <<"w","o","n","'","t">> >>,
    order_support |->
      << <<"o","r","d","e","r">>,
         <<"p","r","i","c","e">>,
         <<"c","o","s","t">>,
         <<"b","u","y">>,
         <<"c","a","r","t">>,
         <<"c","h","e","c","k","o","u","t">>,
         <<"w","h","e","r","e","'","s"," ","m","y">>,
         <<"t","r","a","c","k","i","n","g">> >> ]

\* Object.entries order of intentScores: the order the five keys are written
INTENT_ORDER ==
  << "product_search", "compatibility_check", "installation_guide",
     "troubleshooting", "order_support" >>

\* CONSTANTS.INTENT.GENERAL_INQUIRY
GENERAL_INQUIRY == "general_inquiry"

----------------------------------------------------------------------------
(* JavaScript values passed as a message: a string, or something else. *)

Str(chars) == [type |-> "string", chars |-> chars]
Undefined == [type |-> "undefined", chars |-> <<>>]
Null == [type |-> "null", chars |-> <<>>]
\* the number 42
Number42 == [type |-> "number", chars |-> <<>>]

\* typeof message === 'string'
isMessageString(message) == message.type = "string"

\* message.split(...) and message.substring(...) raise a TypeError when the
\* message is not a string: undefined and null have no properties, and a
\* number has neither method
MethodCallThrows(message) == ~isMessageString(message)

Resolved(value) == [status |-> "resolved", value |-> value]
Rejected(error) == [status |-> "rejected", error |-> error]

----------------------------------------------------------------------------
(* The regular expressions of constants.js and sanitizers.js. *)

\* length of the run of digits of s that starts at index i
RECURSIVE DigitRun(_, _)
DigitRun(s, i) ==
  IF i <= Len(s) /\ IsDigit(s[i]) THEN 1 + DigitRun(s, i + 1) ELSE 0

\* length of the run (at most max) of [A-Z] of s that starts at index i
RECURSIVE LetterRun(_, _, _, _)
LetterRun(s, i, max, ignoreCase) ==
  IF max > 0 /\ i <= Len(s) /\ IsLetter(s[i], ignoreCase)
  THEN 1 + LetterRun(s, i + 1, max - 1, ignoreCase) ELSE 0

\* the pattern /PS\d{6}/, which stops after six digits
PartNumberMatchLen_sixDigits(s, i, ignoreCase) ==
  IF /\ i + 1 <= Len(s)
     /\ (s[i] = "P" \/ (ignoreCase /\ s[i] = "p"))
     /\ (s[i + 1] = "S" \/ (ignoreCase /\ s[i + 1] = "s"))
     /\ DigitRun(s, i + 2) >= 6
  THEN 8
  ELSE 0

\* /PS\d{6,}/ anchored at index i: the length of the match, 0 if none
PartNumberMatchLen(s, i, ignoreCase) ==
  IF /\ i + 1 <= Len(s)
     /\ (s[i] = "P" \/ (ignoreCase /\ s[i] = "p"))
     /\ (s[i + 1] = "S" \/ (ignoreCase /\ s[i + 1] = "s"))
     /\ DigitRun(s, i + 2) >= 6
  THEN 2 + DigitRun(s, i + 2)
  ELSE 0

\* /([A-Z]{1,3}\d{3,4}[A-Z]{0,2}\d+[A-Z]?\d*)/ anchored at index i: the
\* length of the match the backtracking matcher returns, 0 if none.  The
\* quantifiers are greedy, so of the splits <<a, b, c>> (letters, digits,
\* letters) after which a digit follows, the matcher takes the one with the
\* most letters, then the most digits, then the most letters again; the
\* trailing \d+[A-Z]?\d* then takes all it can.
ModelNumberMatchLen(s, i, ignoreCase) ==
  LET splits ==
        { t \in (1..3) \X (3..4) \X (0..2) :
            /\ LetterRun(s, i, 3, ignoreCase) >= t[1]
            /\ DigitRun(s, i + t[1]) >= t[2]
            /\ LetterRun(s, i + t[1] + t[2], 2, ignoreCase) >= t[3]
            /\ DigitRun(s, i + t[1] + t[2] + t[3]) >= 1 }
      prio(t) == 100 * t[1] + 10 * t[2] + t[3]
  IN IF splits = {} THEN 0
     ELSE LET t == CHOOSE u \in splits : \A v \in splits : prio(u) >= prio(v)
              p == i + t[1] + t[2] + t[3]
              d == DigitRun(s, p)
              e == LetterRun(s, p + d, 1, ignoreCase)
              f == DigitRun(s, p + d + e)
          IN t[1] + t[2] + t[3] + d + e + f

\* the flags of CONSTANTS.PATTERNS.PART_NUMBER, /PS\d{6,}/i
PART_NUMBER == [global |-> FALSE, ignoreCase |-> TRUE]

\* a model-number pattern that carries the flag g as well
MODEL_NUMBER_global == [global |-> TRUE, ignoreCase |-> TRUE]

\* the flags of CONSTANTS.PATTERNS.MODEL_NUMBER
MODEL_NUMBER == [global |-> FALSE, ignoreCase |-> TRUE]

\* regexp.test(s) on a RegExp object whose lastIndex is index, lens[j] being
\* the length of the match anchored at character j of s (0 if none): whether
\* a match is found, and the lastIndex the call leaves.  Only a global
\* pattern starts at lastIndex and writes it: the end of the match, or 0
\* when there is none.
RegExpTest(regexp, lens, index) ==
  LET start == IF regexp.global THEN index ELSE 0
      found == { j \in (start + 1)..Len(lens) : lens[j] > 0 }
  IN IF found = {}
     THEN [ found |-> FALSE,
            lastIndex |-> IF regexp.global THEN 0 ELSE index ]
     ELSE LET j == CHOOSE k \in found : \A l \in found : k <= l
          IN [ found |-> TRUE,
               lastIndex |-> IF regexp.global THEN j - 1 + lens[j] ELSE index ]

\* CONSTANTS.PATTERNS.PART_NUMBER.test(s), the pattern being /PS\d{6,}/i
PART_NUMBER_test(s) == \E i \in 1..Len(s) : PartNumberMatchLen(s, i, TRUE) > 0

\* CONSTANTS.PATTERNS.MODEL_NUMBER.test(s), the pattern carrying the flag i
MODEL_NUMBER_test(s) == \E i \in 1..Len(s) : ModelNumberMatchLen(s, i, TRUE) > 0

\* the successive matches of a global pattern from index i on, each search
\* resuming where the previous match ended; lens[j] is the length of the
\* match that starts at index j, 0 when none does
RECURSIVE MatchesFrom(_, _, _)
MatchesFrom(s, lens, i) ==
  IF \A j \in i..Len(s) : lens[j] = 0 THEN <<>>
  ELSE LET j == CHOOSE x \in i..Len(s) :
                   lens[x] > 0 /\ \A y \in i..(x - 1) : lens[y] = 0
       IN <<SubSeq(s, j, j + lens[j] - 1)>> \o MatchesFrom(s, lens, j + lens[j])

\* s.match(/PS\d{6,}/gi)
PartNumberMatches(s, i) ==
  MatchesFrom(s, <<>> \o [ j \in 1..Len(s) |-> PartNumberMatchLen(s, j, TRUE) ], i)

\* s.match(/([A-Z]{1,3}\d{3,4}[A-Z]{0,2}\d+[A-Z]?\d*)/g): no flag i here
ModelNumberMatches(s, i) ==
  MatchesFrom(s, <<>> \o [ j \in 1..Len(s) |-> ModelNumberMatchLen(s, j, FALSE) ], i)

\* /alt1|alt2|.../i.test(s) for alternatives that are lowercase literals
AnyOf_test(alternatives, s) ==
  LET lower == ToLowerCase(s)
  IN \E k \in 1..Len(alternatives) : Includes(lower, alternatives[k])

----------------------------------------------------------------------------
(* utils/sanitizers.js *)

\* extractEntities(message)
extractEntities(message) ==
  LET partMatches == PartNumberMatches(message, 1)
      partNumbers == [k \in 1..Len(partMatches) |-> ToUpperCase(partMatches[k])]
      modelMatches == ModelNumberMatches(message, 1)
      modelNumbers == SelectSeq(modelMatches, LAMBDA m : ~StartsWith(m, <<"P","S">>))
  IN [ partNumbers |-> Dedupe(partNumbers),
       modelNumbers |-> Dedupe(modelNumbers) ]


\* the class without \x7F, as the validator has it
StrippedControlChars_withoutDel == {NUL, BEL, VT, FF, ESC}

\* the class [\x00-\x08\x0B-\x0C\x0E-\x1F\x7F] of removeControlCharacters
StrippedControlChars == {NUL, BEL, VT, FF, ESC, DEL}

removeControlCharacters(str) == SelectSeq(str, LAMBDA c : c \notin StrippedControlChars)

\* String.prototype.trim
RECURSIVE TrimEnd(_)
TrimEnd(str) ==
  IF str # <<>> /\ IsSpace(str[Len(str)]) THEN TrimEnd(SubSeq(str, 1, Len(str) - 1))
  ELSE str

Trim(str) == TrimEnd(SubSeq(str, SkipSpaces(str, 1), Len(str)))

trimWhitespace(str) == Trim(str)

\* str.replace(/\s+/g, ' '): every whitespace run becomes one space
CollapseWhitespace(str) ==
  LET marked == [ i \in 1..Len(str) |->
                    IF ~IsSpace(str[i]) THEN <<str[i]>>
                    ELSE IF i > 1 /\ IsSpace(str[i - 1]) THEN <<>>
                    ELSE <<" ">> ]
  IN Flatten(marked)

normalizeWhitespace(str) == Trim(CollapseWhitespace(str))

toLowercase(str) == ToLowerCase(str)

\* htmlEscapeMap[char] for the characters of /[&<>"'/]/, the character
\* itself otherwise
HtmlEscape(c) ==
  CASE c = "&" -> <<"&","a","m","p",";">>
    [] c = "<" -> <<"&","l","t",";">>
    [] c = ">" -> <<"&","g","t",";">>
    [] c = "\"" -> <<"&","q","u","o","t",";">>
    [] c = "'" -> <<"&","#","3","9",";">>
    [] c = "/" -> <<"&","#","x","2","F",";">>
    [] OTHER -> <<c>>

\* an encoder that encodes its own output once more
encodeHtmlEntities_twice(str) ==
  LET once == Flatten([ i \in 1..Len(str) |-> HtmlEscape(str[i]) ])
  IN Flatten([ i \in 1..Len(once) |-> HtmlEscape(once[i]) ])

encodeHtmlEntities(str) == Flatten([ i \in 1..Len(str) |-> HtmlEscape(str[i]) ])

\* a sanitizer that removes the control characters last
sanitizeString_stripLast(message) ==
  LET cleaned == removeControlCharacters(normalizeWhitespace(trimWhitespace(message)))
  IN [ original |-> message,
       cleaned |-> cleaned,
       sanitized |-> encodeHtmlEntities(cleaned),
       lowercase |-> toLowercase(cleaned) ]

\* the body of sanitizeMessage after its type check
sanitizeString(message) ==
  LET cleaned == normalizeWhitespace(trimWhitespace(removeControlCharacters(message)))
  IN [ original |-> message,
       cleaned |-> cleaned,
       sanitized |-> encodeHtmlEntities(cleaned),
       lowercase |-> toLowercase(cleaned) ]

\* a sanitizer whose type check is if (!message), which refuses ""
sanitizeMessage_refusesEmpty(message) ==
  IF ~isMessageString(message) \/ message.chars = <<>>
  THEN [threw |-> TRUE, error |-> "Message must be a string"]
  ELSE [threw |-> FALSE, value |-> sanitizeString(message.chars)]

\* sanitizeMessage(message): the record returned, or the Error thrown
sanitizeMessage(message) ==
  IF ~isMessageString(message)
  THEN [threw |-> TRUE, error |-> "Message must be a string"]
  ELSE [threw |-> FALSE, value |-> sanitizeString(message.chars)]

----------------------------------------------------------------------------
(* services/scopeDetectionService.js *)

\* an exact match that compares with the keyword's spaces removed, as
\* scoreIntent does
ExactMatch_withoutSpaces(token, keywords) ==
  \E k \in 1..Len(keywords) : token = RemoveWhitespace(keywords[k])

\* token is an element of the keyword table (the exact match)
ExactMatch(token, keywords) == Contains(keywords, token)

\* some keyword contains the token or is contained in it (the partial match)
PartialMatch(token, keywords) ==
  \E k \in 1..Len(keywords) :
     Includes(keywords[k], token) \/ Includes(token, keywords[k])

\* the score the forEach of calculateInScopeScore and
\* calculateOutOfScopeScore adds up: exact points for every token that
\* matches exactly, partial points for every token that matches partially
SumTokenScores(tokens, keywords, exact, partial) ==
  exact * Cardinality({ t \in 1..Len(tokens) : ExactMatch(tokens[t], keywords) })
  + partial * Cardinality({ t \in 1..Len(tokens) : PartialMatch(tokens[t], keywords) })

calculateInScopeScore(tokens) ==
  Min(SumTokenScores(tokens, IN_SCOPE_KEYWORDS, 10, 3), 100)

\* an out-of-scope score that leaves out the partial matches
calculateOutOfScopeScore_exactOnly(tokens) ==
  Min(SumTokenScores(tokens, OUT_OF_SCOPE_KEYWORDS, 15, 0), 100)

calculateOutOfScopeScore(tokens) ==
  Min(SumTokenScores(tokens, OUT_OF_SCOPE_KEYWORDS, 15, 5), 100)

\* a detectPatterns without the appliance-type pattern
detectPatterns_withoutAppliance(message) ==
  Min( (IF PART_NUMBER_test(message) THEN 40 ELSE 0)
       + (IF MODEL_NUMBER_test(message) THEN 30 ELSE 0),
       100 )

detectPatterns(message) ==
  Min( (IF PART_NUMBER_test(message) THEN 40 ELSE 0)
       + (IF MODEL_NUMBER_test(message) THEN 30 ELSE 0)
       + (IF AnyOf_test(<< <<"r","e","f","r","i","g","e","r","a","t","o","r">>, <<"f","r","i","d","g","e">>, <<"d","i","s","h","w","a","s","h","e","r">> >>, message)
          THEN 20 ELSE 0),
       100 )

\* a categorisation that looks for the trouble terms first
categorizeInScopeMessage_troubleFirst(tokens) ==
  LET message == Join(tokens)
  IN IF AnyOf_test(<< <<"b","r","o","k","e","n">>, <<"n","o","t"," ","w","o","r","k","i","n","g">>, <<"f","i","x">>, <<"r","e","p","a","i","r">>,
                      <<"p","r","o","b","l","e","m">>, <<"i","s","s","u","e">>, <<"l","e","a","k">>, <<"f","r","e","e","z","e">>,
                      <<"n","o","i","s","e">> >>, message)
       THEN "troubleshooting_inquiry"
     ELSE IF AnyOf_test(<< <<"i","n","s","t","a","l","l">>, <<"s","e","t","u","p">>, <<"a","s","s","e","m","b","l","e">>, <<"a","t","t","a","c","h">>,
                           <<"h","o","w"," ","t","o">> >>, message)
       THEN "installation_inquiry"
     ELSE IF AnyOf_test(<< <<"c","o","m","p","a","t","i","b","l","e">>, <<"f","i","t">>, <<"w","o","r","k"," ","w","i","t","h">>, <<"s","u","p","p","o","r","t">>,
                           <<"m","a","t","c","h">> >>, message)
       THEN "compatibility_check"
     ELSE IF AnyOf_test(<< <<"o","r","d","e","r">>, <<"p","r","i","c","e">>, <<"c","o","s","t">>, <<"b","u","y">>, <<"c","a","r","t">>,
                           <<"c","h","e","c","k","o","u","t">>, <<"s","h","i","p","p","i","n","g">> >>, message)
       THEN "order_support"
     ELSE "parts_inquiry"

categorizeInScopeMessage(tokens) ==
  LET message == Join(tokens)
  IN IF AnyOf_test(<< <<"i","n","s","t","a","l","l">>, <<"s","e","t","u","p">>, <<"a","s","s","e","m","b","l","e">>, <<"a","t","t","a","c","h">>,
                      <<"h","o","w"," ","t","o">> >>, message)
       THEN "installation_inquiry"
     ELSE IF AnyOf_test(<< <<"c","o","m","p","a","t","i","b","l","e">>, <<"f","i","t">>, <<"w","o","r","k"," ","w","i","t","h">>, <<"s","u","p","p","o","r","t">>,
                           <<"m","a","t","c","h">> >>, message)
       THEN "compatibility_check"
     ELSE IF AnyOf_test(<< <<"b","r","o","k","e","n">>, <<"n","o","t"," ","w","o","r","k","i","n","g">>, <<"f","i","x">>, <<"r","e","p","a","i","r">>,
                           <<"p","r","o","b","l","e","m">>, <<"i","s","s","u","e">>, <<"l","e","a","k">>, <<"f","r","e","e","z","e">>,
                           <<"n","o","i","s","e">> >>, message)
       THEN "troubleshooting_inquiry"
     ELSE IF AnyOf_test(<< <<"o","r","d","e","r">>, <<"p","r","i","c","e">>, <<"c","o","s","t">>, <<"b","u","y">>, <<"c","a","r","t">>,
                           <<"c","h","e","c","k","o","u","t">>, <<"s","h","i","p","p","i","n","g">> >>, message)
       THEN "order_support"
     ELSE "parts_inquiry"

\* a pattern-override rule that forgets the model-number pattern
ExplicitPatternFound_partNumberOnly(hasPartNumber, hasModelNumber) == hasPartNumber

\* if (hasPartNumber || hasModelNumber)
ExplicitPatternFound(hasPartNumber, hasModelNumber) == hasPartNumber \/ hasModelNumber

\* if (outOfScopeScore > inScopeScore + 20)
StrongOutOfScope(inScopeScore, outOfScopeScore) == outOfScopeScore > inScopeScore + 20

\* an in-scope threshold that is not strict
StrongInScope_notStrict(inScopeScore, outOfScopeScore) ==
  inScopeScore >= outOfScopeScore + 10

\* if (inScopeScore > outOfScopeScore + 10)
StrongInScope(inScopeScore, outOfScopeScore) == inScopeScore > outOfScopeScore + 10

\* what detectScope returns once the patterns have been tested
ScopeDecision(message, patternScore, hasPartNumber, hasModelNumber) ==
  LET tokens == SplitWhitespace(message)
      inScopeScore == calculateInScopeScore(tokens)
      outOfScopeScore == calculateOutOfScopeScore(tokens)
      score == [ inScope |-> inScopeScore, outOfScope |-> outOfScopeScore,
                 patterns |-> patternScore ]
  IN IF ExplicitPatternFound(hasPartNumber, hasModelNumber) THEN
       [ inScope |-> TRUE, confidence |-> 100,
         reason |-> "Explicit part or model number pattern detected",
         category |-> "parts_inquiry",
         score |-> [inScope |-> 100, outOfScope |-> 0, patterns |-> 100] ]
     ELSE IF StrongOutOfScope(inScopeScore, outOfScopeScore) THEN
       [ inScope |-> FALSE, confidence |-> Min(95, outOfScopeScore),
         reason |-> "Message contains out-of-scope keywords",
         category |-> "out_of_scope", score |-> score ]
     ELSE IF StrongInScope(inScopeScore, outOfScopeScore) THEN
       [ inScope |-> TRUE, confidence |-> Min(95, inScopeScore),
         reason |-> "Message contains relevant keywords",
         category |-> categorizeInScopeMessage(tokens), score |-> score ]
     ELSE
       [ inScope |-> TRUE, confidence |-> 50,
         reason |-> "Message appears to be parts-related",
         category |-> "general_inquiry", score |-> score ]

\* the try block of detectScope, for a message that is a string
detectScopeTry(message) ==
  ScopeDecision(message, detectPatterns(message), PART_NUMBER_test(message),
                MODEL_NUMBER_test(message))

\* the try block of detectScope run on the shared patterns as the calls
\* before it left them (index is their lastIndex): detectPatterns tests
\* both patterns, then detectScope tests both again.  It gives the result
\* and the lastIndex the patterns are left with.
detectScopeRun(index, message) ==
  LET partLens == <<>> \o [ j \in 1..Len(message) |->
                             PartNumberMatchLen(message, j, PART_NUMBER.ignoreCase) ]
      modelLens == <<>> \o [ j \in 1..Len(message) |->
                              ModelNumberMatchLen(message, j, MODEL_NUMBER.ignoreCase) ]
      part1 == RegExpTest(PART_NUMBER, partLens, index.PART_NUMBER)
      model1 == RegExpTest(MODEL_NUMBER, modelLens, index.MODEL_NUMBER)
      patternScore ==
        Min( (IF part1.found THEN 40 ELSE 0) + (IF model1.found THEN 30 ELSE 0)
             + (IF AnyOf_test(<< <<"r","e","f","r","i","g","e","r","a","t","o","r">>, <<"f","r","i","d","g","e">>, <<"d","i","s","h","w","a","s","h","e","r">> >>,
                              message)
                THEN 20 ELSE 0),
             100 )
      part2 == RegExpTest(PART_NUMBER, partLens, part1.lastIndex)
      model2 == RegExpTest(MODEL_NUMBER, modelLens, model1.lastIndex)
  IN [ result |-> ScopeDecision(message, patternScore, part2.found, model2.found),
       lastIndex |-> [ PART_NUMBER |-> part2.lastIndex,
                       MODEL_NUMBER |-> model2.lastIndex ] ]

\* the catch block of detectScope: the argument list of logger.error
\* evaluates message.substring(0, 50) before anything is returned
detectScopeCatch(message) ==
  IF MethodCallThrows(message) THEN Rejected("TypeError")
  ELSE Resolved([ inScope |-> TRUE, confidence |-> 30,
                  reason |-> "Error during scope detection, defaulting to in-scope",
                  category |-> "general_inquiry" ])

\* detectScope(message): the promise it returns, settled
detectScope(message) ==
  IF MethodCallThrows(message) THEN detectScopeCatch(message)
  ELSE Resolved(detectScopeTry(message.chars))

----------------------------------------------------------------------------
(* services/intentClassificationService.js *)

\* the body of scoreIntent's inner forEach for one token and one keyword:
\* the points added, 0 when nothing is pushed to matches
KeywordPoints(token, keyword) ==
  IF token = keyword \/ token = RemoveWhitespace(keyword) THEN 15
  ELSE IF Includes(keyword, token) /\ Len(token) > 2 THEN 5
  ELSE 0

\* the <<token, keyword>> pairs scoreIntent pushes to matches
IntentMatches(tokens, intentKeywords) ==
  { p \in (1..Len(tokens)) \X (1..Len(intentKeywords)) :
      KeywordPoints(tokens[p[1]], intentKeywords[p[2]]) > 0 }

\* a scoreIntent whose bonus counts every keyword once, as
\* findMatchingKeywords collects them
scoreIntent_distinctBonus(tokens, intentKeywords) ==
  LET matches == IntentMatches(tokens, intentKeywords)
      exact == { p \in matches :
                   KeywordPoints(tokens[p[1]], intentKeywords[p[2]]) = 15 }
      score == 15 * Cardinality(exact) + 5 * Cardinality(matches \ exact)
      distinct == Cardinality({ intentKeywords[p[2]] : p \in matches })
      bonus == IF distinct > 1 THEN distinct * 5 ELSE 0
  IN Min(score + bonus, 100)

\* a scoreIntent that returns its points without the ceiling of 100
scoreIntent_unclamped(tokens, intentKeywords) ==
  LET matches == IntentMatches(tokens, intentKeywords)
      exact == { p \in matches :
                   KeywordPoints(tokens[p[1]], intentKeywords[p[2]]) = 15 }
      score == 15 * Cardinality(exact) + 5 * Cardinality(matches \ exact)
      bonus == IF Cardinality(matches) > 1 THEN Cardinality(matches) * 5 ELSE 0
  IN score + bonus

\* scoreIntent(tokens, intentKeywords): matches holds one entry for every
\* pair of a token and a keyword that earns points
scoreIntent(tokens, intentKeywords) ==
  LET matches == IntentMatches(tokens, intentKeywords)
      exact == { p \in matches :
                   KeywordPoints(tokens[p[1]], intentKeywords[p[2]]) = 15 }
      score == 15 * Cardinality(exact) + 5 * Cardinality(matches \ exact)
      bonus == IF Cardinality(matches) > 1 THEN Cardinality(matches) * 5 ELSE 0
  IN Min(score + bonus, 100)

\* a condition that takes a keyword only when a token equals it
KeywordMatches_exactOnly(token, keyword) == token = keyword

\* the condition under which findMatchingKeywords looks at a keyword
KeywordMatches(token, keyword) == token = keyword \/ Includes(keyword, token)

\* findMatchingKeywords: the matching keywords without duplicates, in the
\* order they are first met, tokens in the outer loop, keywords in the inner
findMatchingKeywords(tokens, intentKeywords) ==
  LET n == Len(intentKeywords)
      \* the tokens at which keyword k meets the condition
      hits == <<>> \o [ k \in 1..n |->
                SelectSeq(Indices(Len(tokens)), LAMBDA t :
                            KeywordMatches(tokens[t], intentKeywords[k])) ]
      \* the keywords pushed, and the loop position of their push
      pushed == SelectSeq(Indices(n), LAMBDA k :
                  /\ hits[k] # <<>>
                  /\ \A j \in 1..(k - 1) : intentKeywords[j] # intentKeywords[k])
      position == <<>> \o [ r \in 1..Len(pushed) |->
                      (hits[pushed[r]][1] - 1) * n + pushed[r] ]
      order == SortSeq(Indices(Len(pushed)),
                       LAMBDA a, b : position[a] < position[b])
  IN <<>> \o [ r \in 1..Len(order) |-> intentKeywords[pushed[order[r]]] ]

detectApplianceType(message) ==
  IF AnyOf_test(<< <<"r","e","f","r","i","g","e","r","a","t","o","r">>, <<"f","r","i","d","g","e">>, <<"i","c","e"," ","m","a","k","e","r">>, <<"f","r","e","e","z","e","r">> >>,
                message)
    THEN "refrigerator"
  ELSE IF AnyOf_test(<< <<"d","i","s","h","w","a","s","h","e","r">>, <<"w","a","s","h">>, <<"s","p","r","a","y"," ","a","r","m">>, <<"f","i","l","t","e","r">>,
                        <<"r","i","n","s","e">> >>, message)
    THEN "dishwasher"
  ELSE "null"

\* a callback that also keeps the entry reduced so far on equal scores
KeepHigher_orEqual(prev, current) == IF prev[2] >= current[2] THEN prev ELSE current

\* the callback of Object.entries(intentScores).reduce: keeps the entry
\* reduced so far only when its score is strictly greater
KeepHigher(prev, current) == IF prev[2] > current[2] THEN prev ELSE current

\* entries.reduce(KeepHigher) without an initial value, over entries k..5
RECURSIVE ReduceFrom(_, _, _)
ReduceFrom(entries, k, prev) ==
  IF k > Len(entries) THEN prev
  ELSE ReduceFrom(entries, k + 1, KeepHigher(prev, entries[k]))

\* entities.partNumbers?.[0] || null
FirstOrNull(seq) == IF seq = <<>> THEN Null ELSE Str(seq[1])

\* the try block of classifyIntent, for a message that is a string
classifyIntentTry(message) ==
  LET tokens == SplitWhitespace(message)
      entities == extractEntities(message)
      intentScores ==
        [ product_search |-> scoreIntent(tokens, INTENT_KEYWORDS.product_search),
          compatibility_check |-> scoreIntent(tokens, INTENT_KEYWORDS.compatibility_check),
          installation_guide |-> scoreIntent(tokens, INTENT_KEYWORDS.installation_guide),
          troubleshooting |-> scoreIntent(tokens, INTENT_KEYWORDS.troubleshooting),
          order_support |-> scoreIntent(tokens, INTENT_KEYWORDS.order_support) ]
      \* Object.entries(intentScores): the entries in the order of INTENT_ORDER
      entries ==
        <<>> \o [ k \in 1..Len(INTENT_ORDER) |->
                   << INTENT_ORDER[k], intentScores[INTENT_ORDER[k]] >> ]
      topIntent == ReduceFrom(entries, 2, entries[1])
      intent == topIntent[1]
      score == topIntent[2]
  IN [ intent |-> intent,
       confidence |-> Min(score, 99),
       keywords |-> findMatchingKeywords(tokens, INTENT_KEYWORDS[intent]),
       context |-> [ partNumber |-> FirstOrNull(entities.partNumbers),
                     modelNumber |-> FirstOrNull(entities.modelNumbers),
                     applianceType |-> detectApplianceType(message) ],
       scores |-> intentScores ]

\* the catch block of classifyIntent; {} is the record without fields
classifyIntentCatch ==
  [ intent |-> GENERAL_INQUIRY, confidence |-> 30, keywords |-> <<>>,
    context |-> <<>>, scores |-> <<>> ]

\* a classifyIntent whose catch block logs message.substring(0, 50), as the
\* catch block of detectScope does
classifyIntent_logsMessage(message) ==
  IF MethodCallThrows(message) THEN Rejected("TypeError")
  ELSE Resolved(classifyIntentTry(message.chars))

\* classifyIntent(message): the promise it returns, settled
classifyIntent(message) ==
  IF MethodCallThrows(message) THEN Resolved(classifyIntentCatch)
  ELSE Resolved(classifyIntentTry(message.chars))

----------------------------------------------------------------------------
(* services/agentOrchestrator.js *)

\* the switch of processMessage: the handler an intent is routed to
RouteIntent(intent) ==
  CASE intent = "product_search" -> "handleProductSearch"
    [] intent = "compatibility_check" -> "handleCompatibilityCheck"
    [] intent = "installation_guide" -> "handleInstallationGuide"
    [] intent = "troubleshooting" -> "handleTroubleshooting"
    [] intent = "order_support" -> "handleOrderSupport"
    [] OTHER -> "handleGeneralInquiry"

\* the response type and the tools each handler reports
HandlerResponse(handler) ==
  CASE handler = "handleProductSearch" ->
         [type |-> "product_results", toolsUsed |-> <<"productSearchTool (mock)">>]
    [] handler = "handleCompatibilityCheck" ->
         [type |-> "text", toolsUsed |-> <<"compatibilityTool (mock)">>]
    [] handler = "handleInstallationGuide" ->
         [type |-> "installation_guide", toolsUsed |-> <<"installationTool (mock)">>]
    [] handler = "handleTroubleshooting" ->
         [type |-> "troubleshooting", toolsUsed |-> <<"troubleshootingTool (mock)">>]
    [] handler = "handleOrderSupport" ->
         [type |-> "text", toolsUsed |-> <<"orderSupportTool (mock)">>]
    [] handler = "handleGeneralInquiry" ->
         [type |-> "text", toolsUsed |-> <<>>]

\* processMessage(input), input.intent being an IntentResult
processMessage(intent) ==
  LET handler == RouteIntent(intent.intent)
      r == HandlerResponse(handler)
  IN [ handler |-> handler, type |-> r.type, toolsUsed |-> r.toolsUsed ]

----------------------------------------------------------------------------
(* utils/validators.js *)

\* CONSTANTS.MESSAGE
MIN_LENGTH == 1
MAX_LENGTH == 5000

\* the sessionId field of a request body: missing, a string that is no
\* uuid v4, or the n-th uuid
NoSessionId == [kind |-> "absent", n |-> 0]
InvalidSessionId == [kind |-> "invalid", n |-> 0]
Uuid(n) == [kind |-> "uuid", n |-> n]

\* a request body: message is a JavaScript value (Undefined when the field
\* is missing)
Body(message, sid) == [message |-> message, sessionId |-> sid]

\* chatMessageSchema.validate(data): Joi converts before it checks, so the
\* string is trimmed first and the empty string is then refused
validateChatMessage(data) ==
  LET message == data.message
      trimmed == Trim(message.chars)
      messageError ==
        IF message.type = "undefined" THEN "Message field is required"
        ELSE IF ~(message.type = "string") THEN "\"message\" must be a string"
        ELSE IF trimmed = <<>> THEN "Message is required and cannot be empty"
        ELSE IF Len(trimmed) < MIN_LENGTH THEN "Message must be at least 1 character long"
        ELSE IF Len(trimmed) > MAX_LENGTH THEN "Message must be at most 5000 characters long"
        ELSE "none"
      sessionError ==
        IF data.sessionId.kind = "invalid" THEN "Invalid session ID format" ELSE "none"
  IN IF messageError # "none" \/ sessionError # "none"
     THEN [ valid |-> FALSE,
            error |-> IF messageError # "none" THEN messageError ELSE sessionError ]
     ELSE [ valid |-> TRUE,
            value |-> [message |-> Str(trimmed), sessionId |-> data.sessionId] ]

\* the class with \x7F, as the sanitizer has it
RejectedControlChars_withDel == {NUL, BEL, VT, FF, ESC, DEL}

\* the class [\x00-\x08\x0B-\x0C\x0E-\x1F] of isMessageSafeFromControlCharacters
RejectedControlChars == {NUL, BEL, VT, FF, ESC}

isMessageSafeFromControlCharacters(message) ==
  ~(\E i \in 1..Len(message) : message[i] \in RejectedControlChars)

isMessageLengthValid(message) ==
  LET length == Len(Trim(message))
  IN length >= MIN_LENGTH /\ length <= MAX_LENGTH

----------------------------------------------------------------------------
(* services/messageService.js *)

\* the separators of tokenizeMessage: /[\s\-_.,!?;:()\[\]{}]+/
IsSeparator(c) ==
  IsSpace(c) \/ c \in {"-", "_", ".", ",", "!", "?", ";", ":", "(", ")", "[", "]", "{", "}"}

tokenizeMessage(message) ==
  LET pieces == Pieces(message, [ i \in 1..Len(message) |-> IsSeparator(message[i]) ])
  IN <<>> \o [ k \in 1..Len(pieces) |-> ToLowerCase(pieces[k]) ]

\* \w
IsWordChar(c) == IsUpper(c) \/ IsLower(c) \/ IsDigit(c) \/ c = "_"

\* preprocessMessage(message): the record it resolves to, or the error it
\* rejects with
preprocessMessage(message) ==
  IF ~isMessageString(message) THEN
       \* the catch block evaluates message.substring before it rethrows
       [threw |-> TRUE, error |-> "TypeError"]
  ELSE IF ~isMessageLengthValid(message.chars) THEN
       [threw |-> TRUE, error |-> "Message must be between 1 and 5000 characters"]
  ELSE IF ~isMessageSafeFromControlCharacters(message.chars) THEN
       [threw |-> TRUE, error |-> "Message contains invalid characters"]
  ELSE LET sanitized == sanitizeMessage(message).value
           tokens == tokenizeMessage(sanitized.cleaned)
           entities == extractEntities(sanitized.cleaned)
       IN [ threw |-> FALSE,
            value |->
              [ original |-> sanitized.original,
                cleaned |-> sanitized.cleaned,
                sanitized |-> sanitized.sanitized,
                lowercase |-> sanitized.lowercase,
                tokens |-> tokens,
                entities |-> entities,
                metadata |->
                  [ length |-> Len(sanitized.original),
                    tokenCount |-> Len(tokens),
                    hasNumbers |-> \E i \in 1..Len(sanitized.cleaned) :
                                      IsDigit(sanitized.cleaned[i]),
                    hasSpecialChars |-> \E i \in 1..Len(sanitized.cleaned) :
                                      /\ ~IsWordChar(sanitized.cleaned[i])
                                      /\ ~IsSpace(sanitized.cleaned[i]) ] ] ]

----------------------------------------------------------------------------
(* services/sessionService.js *)

SessionIds == 1..NumSessionIds

\* sessionStore.get(id) of an id the Map does not hold
NoSession == [exists |-> FALSE]

\* a createSession whose session starts with a greeting in its history
createSession_withGreeting(store, id, time) ==
  [ store EXCEPT ![id] =
      [ exists |-> TRUE, sessionId |-> id, createdAt |-> time,
        lastActivity |-> time,
        conversationHistory |-> << [ messageId |-> 0, role |-> "assistant",
                                     message |-> "greeting", timestamp |-> time,
                                     metadata |-> <<>> ] >>,
        isActive |-> TRUE ] ]

\* createSession(id): the Map after sessionStore.set(id, session)
createSession(store, id, time) ==
  [ store EXCEPT ![id] =
      [ exists |-> TRUE, sessionId |-> id, createdAt |-> time,
        lastActivity |-> time, conversationHistory |-> <<>>,
        isActive |-> TRUE ] ]

\* getSession(id): the Map after the call (lastActivity is touched when the
\* session exists); the call returns null exactly when store[id] is NoSession
getSession(store, id, time) ==
  IF store[id].exists THEN [store EXCEPT ![id].lastActivity = time] ELSE store

\* clearExpiredSessions(expiryMinutes) called at instant time (in ms): the
\* Map after the forEach, and the count returned
clearExpiredSessions(store, expiryMinutes, time) ==
  LET expired == { id \in SessionIds :
                     /\ store[id].exists
                     /\ time - store[id].lastActivity > expiryMinutes * 60 * 1000 }
  IN [ store |-> [ id \in SessionIds |->
                     IF id \in expired THEN NoSession ELSE store[id] ],
       clearedCount |-> Cardinality(expired) ]

\* addMessageToHistory(id, messageData): throws when the session is missing
addMessageToHistoryThrows(store, id) == ~store[id].exists

\* an addMessageToHistory that keeps the last message only
addMessageToHistory_keepsLast(store, id, messageData, time) ==
  [ store EXCEPT
      ![id].conversationHistory =
          << [ messageId |-> messageData.messageId,
               role |-> messageData.role,
               message |-> messageData.message,
               timestamp |-> time,
               metadata |-> messageData.metadata ] >>,
      ![id].lastActivity = time ]

addMessageToHistory(store, id, messageData, time) ==
  [ store EXCEPT
      ![id].conversationHistory =
          Append(@, [ messageId |-> messageData.messageId,
                      role |-> messageData.role,
                      message |-> messageData.message,
                      timestamp |-> time,
                      metadata |-> messageData.metadata ]),
      ![id].lastActivity = time ]

----------------------------------------------------------------------------
(* The messages the model feeds to the program. *)

\* the queries the README lists under "Out-of-Scope (should deflect)"
ReadmeOutOfScopeQueries ==
  { <<"W","h","a","t","'","s"," ","t","h","e"," ","w","e","a","t","h","e","r","?">>, <<"T","e","l","l"," ","m","e"," ","a"," ","j","o","k","e">>, <<"H","o","w"," ","d","o"," ","I"," ","c","o","o","k"," ","c","h","i","c","k","e","n","?">>,
    <<"W","h","a","t"," ","a","r","e"," ","s","t","o","c","k"," ","p","r","i","c","e","s","?">> }

JokeAboutTheWeather == <<"t","e","l","l"," ","m","e"," ","a"," ","j","o","k","e"," ","a","b","o","u","t"," ","t","h","e"," ","w","e","a","t","h","e","r">>
CompatibleQuestion == <<"I","s"," ","P","S","1","1","7","5","2","7","7","8"," ","c","o","m","p","a","t","i","b","l","e"," ","w","i","t","h"," ","W","D","T","7","8","0","S","A","E","M","1","?">>
InstallQuestion == <<"h","o","w"," ","d","o"," ","i"," ","i","n","s","t","a","l","l"," ","P","S","1","1","7","5","2","7","7","8">>
PartWeatherJoke == <<"P","S","1","2","3","4","5","6"," ","w","e","a","t","h","e","r"," ","j","o","k","e">>
\* keyword messages with terms of two categories, and with a compatibility term
BrokenPartInstall == <<"b","r","o","k","e","n"," ","p","a","r","t"," ","i","n","s","t","a","l","l">>
PartFit == <<"p","a","r","t"," ","f","i","t">>
\* the trigger "how to" written as one word
Howto == <<"h","o","w","t","o">>
\* a message whose order_support points exceed 100
SixOrders == <<"o","r","d","e","r"," ","o","r","d","e","r"," ","o","r","d","e","r"," ","o","r","d","e","r"," ","o","r","d","e","r"," ","o","r","d","e","r">>
\* the keywords "ice maker" and "stock market" written as one word
Icemaker == <<"i","c","e","m","a","k","e","r">>
Stockmarket == <<"s","t","o","c","k","m","a","r","k","e","t">>
\* an appliance-type word in mixed case and no identifier
FridgePart == <<"F","r","i","d","g","e"," ","p","a","r","t">>

ExampleMessages ==
  ReadmeOutOfScopeQueries
    \cup { JokeAboutTheWeather, CompatibleQuestion, InstallQuestion, PartWeatherJoke,
           Icemaker, Stockmarket, FridgePart, BrokenPartInstall, PartFit,
           SixOrders, Howto }

\* words with and without keyword, trigger and identifier matches
Vocabulary ==
  << <<"j","o","k","e">>, <<"p","a","r","t">>, <<"a">>, <<"n","e","e","d">>, <<"f","i","x">>, <<"o","r","d","e","r">>, <<"p","s","1","2","3","4","5","6">>,
     <<"w","d","t","7","8","0","1">> >>

\* the messages of exactly n words of the vocabulary, single-spaced
RECURSIVE WordMessages(_)
WordMessages(n) ==
  IF n = 0 THEN { <<>> }
  ELSE IF n = 1 THEN Range(Vocabulary)
  ELSE { m \o <<" ">> \o w : m \in WordMessages(n - 1), w \in Range(Vocabulary) }

\* n copies of a word, each followed by a space
RECURSIVE Repeat(_, _)
Repeat(word, n) == IF n = 0 THEN <<>> ELSE word \o <<" ">> \o Repeat(word, n - 1)

\* messages that step the two keyword scores through their thresholds:
\* "a" is part of keywords of both tables (3 and 5 points), "pa" only of
\* in-scope ones (3), "part" is an in-scope keyword (13), "joke" an
\* out-of-scope one (20)
ScoreProbes ==
  { Trim(Repeat(<<"a">>, i) \o Repeat(<<"p","a">>, j) \o Repeat(<<"p","a","r","t">>, k)
           \o Repeat(<<"j","o","k","e">>, l)) :
      i \in 0..MaxPartial, j \in 0..MaxPartial, k \in 0..1, l \in 0..1 }

StringArguments ==
  { Str(m) : m \in ExampleMessages \cup ScoreProbes
                     \cup UNION { WordMessages(n) : n \in 0..MaxWords } }

\* what the exported functions are called with
Arguments == StringArguments \cup { Undefined, Null, Number42 }

\* a letter, whitespace, and control characters: U+0000 is stripped by the
\* sanitizer and refused by the validator, U+000B is both and also
\* whitespace, U+007F is stripped by the sanitizer only
TextAlphabet == << "a", " ", "\t", NUL, VT, DEL >>

\* the texts of exactly n characters of the alphabet
RECURSIVE Texts(_)
Texts(n) ==
  IF n = 0 THEN { <<>> }
  ELSE { m \o <<c>> : m \in Texts(n - 1), c \in Range(TextAlphabet) }

\* the six characters encodeHtmlEntities replaces, a letter and a space
HtmlAlphabet == << "&", "<", ">", "\"", "'", "/", "a", " " >>

\* the texts of exactly n characters of the HTML alphabet
RECURSIVE HtmlTexts(_)
HtmlTexts(n) ==
  IF n = 0 THEN { <<>> }
  ELSE { m \o <<c>> : m \in HtmlTexts(n - 1), c \in Range(HtmlAlphabet) }

\* texts that hold entities already, and a tag
EscapedTexts == { <<"&","l","t",";">>, <<"&","a","m","p",";","a","m","p",";">>, <<"&","#","x","2","F",";","&","#","3","9",";">>, <<"<","a",">","&","<","/","a",">">> }

\* what the sanitizer and the preprocessor are called with
TextArguments ==
  { Str(m) : m \in UNION { Texts(n) : n \in 0..MaxChars }
                     \cup UNION { HtmlTexts(n) : n \in 0..MaxHtmlChars }
                     \cup EscapedTexts }
    \cup { Undefined, Null, Number42 }

\* what a chat request carries as its message
\* a message that is the one character U+007F
DelOnly == << DEL >>

ChatMessages ==
  { Str(m) : m \in ReadmeOutOfScopeQueries
                     \cup { JokeAboutTheWeather, InstallQuestion,
                            <<" "," ">>, <<"h", "i", BEL>>, DelOnly } }
    \cup { Undefined, Number42 }

ChatBodies ==
  { Body(m, sid) : m \in ChatMessages, sid \in {NoSessionId} \cup { Uuid(n) : n \in SessionIds } }
    \cup { Body(Str(InstallQuestion), InvalidSessionId) }

----------------------------------------------------------------------------
(* controllers/chatController.js: handleChatMessage, one action for each   *)
(* stretch of code that runs between two awaits.                           *)

None == [status |-> "none"]

\* next(error) with an AppError, as the error handler answers it
ErrorResponse(statusCode, code) ==
  [ kind |-> "error", status |-> statusCode, code |-> code ]

\* res.status(200).json(formatChatResponse(...))
ChatResponse(sid, mid, responseType, metadata) ==
  [ kind |-> "json", status |-> 200, sessionId |-> sid, messageId |-> mid,
    type |-> responseType, metadata |-> metadata ]

\* the catch block of handleChatMessage for an error that is no AppError
InternalError == ErrorResponse(500, "INTERNAL_SERVER_ERROR")

\* steps 1 and 2 up to the first await: validation, then the call of
\* getSession for the provided id or for a fresh uuid
Begin ==
  /\ pc \in {"idle", "done"}
  /\ requests < MaxRequests
  \* server.close() of gracefulShutdown: no request is accepted any more
  /\ shutdown = None
  /\ storeBefore' = sessionStore
  /\ \E b \in ChatBodies :
       LET validation == validateChatMessage(b)
       IN /\ body' = b
          /\ requests' = requests + 1
          /\ messageId' = None /\ preprocessResult' = None /\ scopeResult' = None
          /\ intentResult' = None /\ orchestratorResult' = None
          /\ calls' = <<>>
          /\ IF ~validation.valid
             THEN /\ response' = ErrorResponse(400, "VALIDATION_ERROR")
                  /\ pc' = "done"
                  /\ sessionId' = None
                  /\ UNCHANGED sessionStore
             ELSE \E sid \in SessionIds :
                    \* uuidv4() returns an id no session has
                    /\ IF validation.value.sessionId.kind = "absent"
                       THEN ~sessionStore[sid].exists
                       ELSE sid = validation.value.sessionId.n
                    /\ sessionId' = sid
                    /\ sessionStore' = getSession(sessionStore, sid, now)
                    /\ response' = None
                    /\ pc' = IF sessionStore[sid].exists THEN "preprocess"
                             ELSE "createSession"
  /\ UNCHANGED << callVars, shutdown, nextMessageId, now >>

\* if (!session) session = await sessionService.createSession(sessionId)
CreateSession ==
  /\ pc = "createSession"
  /\ sessionStore' = createSession(sessionStore, sessionId, now)
  /\ pc' = "preprocess"
  /\ UNCHANGED << callVars, storeBefore, shutdown, body, sessionId, messageId, preprocessResult,
                  scopeResult, intentResult, orchestratorResult, response,
                  nextMessageId, calls, requests, now >>

\* step 3: generateMessageId() and preprocessMessage(message)
Preprocess ==
  /\ pc = "preprocess"
  /\ LET r == preprocessMessage(validateChatMessage(body).value.message)
     IN /\ nextMessageId' = nextMessageId + 1
        /\ messageId' = nextMessageId + 1
        /\ IF r.threw
           THEN /\ response' = InternalError
                /\ pc' = "done"
                /\ UNCHANGED preprocessResult
           ELSE /\ preprocessResult' = r.value
                /\ pc' = "detectScope"
                /\ UNCHANGED response
  /\ UNCHANGED << callVars, storeBefore, shutdown, body, sessionId, scopeResult, intentResult,
                  orchestratorResult, sessionStore, calls, requests, now >>

\* a handler that goes on to classify the intent whatever the scope is
StepAfterScope_alwaysClassify(scope) == "classifyIntent"

\* if (!scopeResult.inScope) { ... return }: where the handler goes on
StepAfterScope(scope) == IF scope.inScope THEN "classifyIntent" ELSE "outOfScope"

\* step 4: detectScope(preprocessResult.cleaned)
DetectScope ==
  /\ pc = "detectScope"
  /\ LET r == detectScope(Str(preprocessResult.cleaned))
     IN IF r.status = "rejected"
        THEN /\ response' = InternalError
             /\ pc' = "done"
             /\ UNCHANGED scopeResult
        ELSE /\ scopeResult' = r.value
             /\ pc' = StepAfterScope(r.value)
             /\ UNCHANGED response
  /\ calls' = Append(calls, "detectScope")
  /\ UNCHANGED << callVars, storeBefore, shutdown, body, sessionId, messageId, preprocessResult,
                  intentResult, orchestratorResult, sessionStore,
                  nextMessageId, requests, now >>

\* the entry addMessageToHistory is called with
HistoryMessage(role, message, metadata) ==
  [ role |-> role, message |-> message, messageId |-> messageId,
    metadata |-> metadata ]

\* await addMessageToHistory(sessionId, entry), leading to pc value next;
\* the error of a missing session ends in the catch block
AddToHistory(entry, next) ==
  IF addMessageToHistoryThrows(sessionStore, sessionId)
  THEN /\ response' = InternalError
       /\ pc' = "done"
       /\ UNCHANGED sessionStore
  ELSE /\ sessionStore' = addMessageToHistory(sessionStore, sessionId, entry, now)
       /\ pc' = next
       /\ UNCHANGED response

\* the message of the validated body
RequestMessage == validateChatMessage(body).value.message

\* the out-of-scope branch up to its first await: the user entry
OutOfScopeUser ==
  /\ pc = "outOfScope"
  /\ AddToHistory(HistoryMessage("user", RequestMessage, <<>>), "outOfScopeAssistant")
  /\ UNCHANGED << callVars, storeBefore, shutdown, body, sessionId, messageId, preprocessResult,
                  scopeResult, intentResult, orchestratorResult,
                  nextMessageId, calls, requests, now >>

\* the assistant entry of the out-of-scope branch
OutOfScopeAssistant ==
  /\ pc = "outOfScopeAssistant"
  /\ AddToHistory(HistoryMessage("assistant", "out-of-scope deflection", <<>>),
                  "outOfScopeRespond")
  /\ UNCHANGED << callVars, storeBefore, shutdown, body, sessionId, messageId, preprocessResult,
                  scopeResult, intentResult, orchestratorResult,
                  nextMessageId, calls, requests, now >>

\* return res.status(200).json(response) of the out-of-scope branch
OutOfScopeRespond ==
  /\ pc = "outOfScopeRespond"
  /\ response' = ChatResponse(sessionId, messageId, "out_of_scope",
                    [ intent |-> "out_of_scope", inScope |-> FALSE,
                      toolsUsed |-> <<>>, confidence |-> scopeResult.confidence ])
  /\ pc' = "done"
  /\ UNCHANGED << callVars, storeBefore, shutdown, body, sessionId, messageId, preprocessResult,
                  scopeResult, intentResult, orchestratorResult, sessionStore,
                  nextMessageId, calls, requests, now >>

\* step 5: classifyIntent(preprocessResult.cleaned)
ClassifyIntent ==
  /\ pc = "classifyIntent"
  /\ intentResult' = classifyIntent(Str(preprocessResult.cleaned)).value
  /\ calls' = Append(calls, "classifyIntent")
  /\ pc' = "processMessage"
  /\ UNCHANGED << callVars, storeBefore, shutdown, body, sessionId, messageId, preprocessResult,
                  scopeResult, orchestratorResult, response, sessionStore,
                  nextMessageId, requests, now >>

\* step 6: agentOrchestrator.processMessage(orchestratorInput)
ProcessMessage ==
  /\ pc = "processMessage"
  /\ orchestratorResult' = processMessage(intentResult)
  /\ calls' = Append(calls, "processMessage")
  /\ pc' = "historyUser"
  /\ UNCHANGED << callVars, storeBefore, shutdown, body, sessionId, messageId, preprocessResult,
                  scopeResult, intentResult, response, sessionStore,
                  nextMessageId, requests, now >>

\* steps 7 and 8 up to the first await: the user entry
HistoryUser ==
  /\ pc = "historyUser"
  /\ AddToHistory(HistoryMessage("user", RequestMessage,
                     [intent |-> intentResult.intent, scope |-> scopeResult]),
                  "historyAssistant")
  /\ UNCHANGED << callVars, storeBefore, shutdown, body, sessionId, messageId, preprocessResult,
                  scopeResult, intentResult, orchestratorResult,
                  nextMessageId, calls, requests, now >>

\* the assistant entry: the content and type the handler returned
HistoryAssistant ==
  /\ pc = "historyAssistant"
  /\ AddToHistory(HistoryMessage("assistant", orchestratorResult.handler,
                     [ type |-> orchestratorResult.type,
                       toolsUsed |-> orchestratorResult.toolsUsed ]),
                  "respond")
  /\ UNCHANGED << callVars, storeBefore, shutdown, body, sessionId, messageId, preprocessResult,
                  scopeResult, intentResult, orchestratorResult,
                  nextMessageId, calls, requests, now >>

\* step 9: res.status(200).json(response)
Respond ==
  /\ pc = "respond"
  /\ response' = ChatResponse(sessionId, messageId, orchestratorResult.type,
                    [ intent |-> intentResult.intent, inScope |-> TRUE,
                      toolsUsed |-> orchestratorResult.toolsUsed,
                      confidence |-> intentResult.confidence ])
  /\ pc' = "done"
  /\ UNCHANGED << callVars, storeBefore, shutdown, body, sessionId, messageId, preprocessResult,
                  scopeResult, intentResult, orchestratorResult, sessionStore,
                  nextMessageId, calls, requests, now >>

\* time passes
Tick ==
  /\ now < MaxTime
  /\ now' = now + 1
  /\ UNCHANGED << callVars, storeBefore, shutdown, pc, body, sessionId, messageId, preprocessResult,
                  scopeResult, intentResult, orchestratorResult, response,
                  sessionStore, nextMessageId, calls, requests >>

\* gracefulShutdown, run on SIGTERM or SIGINT between two requests: the
\* server is closed and clearExpiredSessions(0) is awaited
Shutdown ==
  /\ pc \in {"idle", "done"}
  /\ shutdown = None
  /\ LET cleanup == clearExpiredSessions(sessionStore, 0, now)
     IN /\ sessionStore' = cleanup.store
        /\ shutdown' = [ status |-> "done",
                         sessions |-> Cardinality({ id \in SessionIds :
                                                     sessionStore[id].exists }),
                         clearedCount |-> cleanup.clearedCount ]
  /\ UNCHANGED << callVars, storeBefore, pc, body, sessionId, messageId,
                  preprocessResult, scopeResult, intentResult,
                  orchestratorResult, response, nextMessageId, calls,
                  requests, now >>

----------------------------------------------------------------------------
(* controllers/chatController.js: handleChatMessage for requests that are  *)
(* handled concurrently.  Each request has its own locals and stops at     *)
(* each await, where another request may run; the session store and the    *)
(* message ids are shared.                                                 *)

\* the locals of a request that has not arrived
IdleRequest ==
  [ pc |-> "idle", body |-> None, sessionId |-> None, messageId |-> None,
    preprocessResult |-> None, scopeResult |-> None, intentResult |-> None,
    orchestratorResult |-> None, response |-> None ]

\* the bodies of concurrent requests: an out-of-scope message, an in-scope
\* message and a message preprocessMessage rejects on the first session, and
\* a message on the second
ConcurrentBodies ==
  { Body(Str(m), Uuid(1)) :
      m \in { JokeAboutTheWeather, InstallQuestion, <<"h", "i", BEL>> } }
    \cup { Body(Str(JokeAboutTheWeather), Uuid(NumSessionIds)) }

\* what the other variables of a concurrent request's step are left as
concurrentFrame ==
  << fn, arg, ret, lastIndex, history, pc, body, sessionId, messageId,
     preprocessResult, scopeResult, intentResult, orchestratorResult,
     response, calls, requests, now, storeBefore, shutdown >>

\* steps 1 and 2 up to the first await of request r
Arrive(r) ==
  /\ inflight[r].pc = "idle"
  /\ \E b \in ConcurrentBodies :
       LET validation == validateChatMessage(b)
       IN IF ~validation.valid
          THEN /\ inflight' = [ inflight EXCEPT ![r].body = b, ![r].pc = "done",
                                  ![r].response = ErrorResponse(400, "VALIDATION_ERROR") ]
               /\ UNCHANGED sessionStore
          ELSE LET sid == validation.value.sessionId.n
               IN /\ sessionStore' = getSession(sessionStore, sid, now)
                  /\ inflight' =
                       [ inflight EXCEPT
                           ![r].body = b, ![r].sessionId = sid,
                           ![r].pc = IF sessionStore[sid].exists THEN "preprocess"
                                     ELSE "createSession" ]
  /\ UNCHANGED << concurrentFrame, nextMessageId >>

\* if (!session) session = await sessionService.createSession(sessionId)
CreateSessionFor(r) ==
  /\ inflight[r].pc = "createSession"
  /\ sessionStore' = createSession(sessionStore, inflight[r].sessionId, now)
  /\ inflight' = [ inflight EXCEPT ![r].pc = "preprocess" ]
  /\ UNCHANGED << concurrentFrame, nextMessageId >>

\* step 3 of request r
PreprocessFor(r) ==
  /\ inflight[r].pc = "preprocess"
  /\ LET result == preprocessMessage(validateChatMessage(inflight[r].body).value.message)
     IN /\ nextMessageId' = nextMessageId + 1
        /\ inflight' =
             IF result.threw
             THEN [ inflight EXCEPT ![r].messageId = nextMessageId + 1,
                                    ![r].response = InternalError,
                                    ![r].pc = "done" ]
             ELSE [ inflight EXCEPT ![r].messageId = nextMessageId + 1,
                                    ![r].preprocessResult = result.value,
                                    ![r].pc = "detectScope" ]
  /\ UNCHANGED << concurrentFrame, sessionStore >>

\* step 4 of request r
DetectScopeFor(r) ==
  /\ inflight[r].pc = "detectScope"
  /\ LET result == detectScope(Str(inflight[r].preprocessResult.cleaned))
     IN inflight' =
          IF result.status = "rejected"
          THEN [ inflight EXCEPT ![r].response = InternalError, ![r].pc = "done" ]
          ELSE [ inflight EXCEPT
                   ![r].scopeResult = result.value,
                   ![r].pc = IF StepAfterScope(result.value) = "outOfScope"
                             THEN "userEntry" ELSE "classifyIntent" ]
  /\ UNCHANGED << concurrentFrame, sessionStore, nextMessageId >>

\* step 5 of request r
ClassifyIntentFor(r) ==
  /\ inflight[r].pc = "classifyIntent"
  /\ inflight' =
       [ inflight EXCEPT
           ![r].intentResult =
               classifyIntent(Str(inflight[r].preprocessResult.cleaned)).value,
           ![r].pc = "processMessage" ]
  /\ UNCHANGED << concurrentFrame, sessionStore, nextMessageId >>

\* step 6 of request r
ProcessMessageFor(r) ==
  /\ inflight[r].pc = "processMessage"
  /\ inflight' =
       [ inflight EXCEPT
           ![r].orchestratorResult = processMessage(inflight[r].intentResult),
           ![r].pc = "userEntry" ]
  /\ UNCHANGED << concurrentFrame, sessionStore, nextMessageId >>

\* the entry request r hands to addMessageToHistory (its metadata, which
\* nothing reads, left empty)
EntryOf(r, role, message) ==
  [ role |-> role, message |-> message, messageId |-> inflight[r].messageId,
    metadata |-> <<>> ]

\* await addMessageToHistory(sessionId, entry) of request r, leading to the
\* pc value next; the error of a missing session ends in the catch block
AddEntryFor(r, entry, next) ==
  IF addMessageToHistoryThrows(sessionStore, inflight[r].sessionId)
  THEN /\ inflight' = [ inflight EXCEPT ![r].response = InternalError,
                                        ![r].pc = "done" ]
       /\ UNCHANGED sessionStore
  ELSE /\ sessionStore' = addMessageToHistory(sessionStore, inflight[r].sessionId,
                                              entry, now)
       /\ inflight' = [ inflight EXCEPT ![r].pc = next ]

\* the user entry of request r, on either path
UserEntryFor(r) ==
  /\ inflight[r].pc = "userEntry"
  /\ AddEntryFor(r, EntryOf(r, "user",
                            validateChatMessage(inflight[r].body).value.message),
                 "assistantEntry")
  /\ UNCHANGED << concurrentFrame, nextMessageId >>

\* the assistant entry of request r, on either path
AssistantEntryFor(r) ==
  /\ inflight[r].pc = "assistantEntry"
  /\ AddEntryFor(r, EntryOf(r, "assistant",
                            IF inflight[r].scopeResult.inScope
                            THEN inflight[r].orchestratorResult.handler
                            ELSE "out-of-scope deflection"),
                 "respond")
  /\ UNCHANGED << concurrentFrame, nextMessageId >>

\* return res.status(200).json(response) of request r, on either path
RespondTo(r) ==
  /\ inflight[r].pc = "respond"
  /\ inflight' =
       [ inflight EXCEPT
           ![r].response =
               IF inflight[r].scopeResult.inScope
               THEN ChatResponse(inflight[r].sessionId, inflight[r].messageId,
                      inflight[r].orchestratorResult.type,
                      [ intent |-> inflight[r].intentResult.intent,
                        inScope |-> TRUE,
                        toolsUsed |-> inflight[r].orchestratorResult.toolsUsed,
                        confidence |-> inflight[r].intentResult.confidence ])
               ELSE ChatResponse(inflight[r].sessionId, inflight[r].messageId,
                      "out_of_scope",
                      [ intent |-> "out_of_scope", inScope |-> FALSE,
                        toolsUsed |-> <<>>,
                        confidence |-> inflight[r].scopeResult.confidence ]),
           ![r].pc = "done" ]
  /\ UNCHANGED << concurrentFrame, sessionStore, nextMessageId >>

----------------------------------------------------------------------------
(* Calls of the exported functions of the services on the argument arg,
   one call in a behaviour. *)

Returned(value) == [status |-> "returned", value |-> value]
Threw(error) == [status |-> "threw", error |-> error]

CallDetectScope ==
  /\ fn = "none"
  /\ fn' = "detectScope"
  /\ ret' = detectScope(arg)
  /\ UNCHANGED << arg, chatVars, lastIndex, history, inflight >>

CallClassifyIntent ==
  /\ fn = "none"
  /\ fn' = "classifyIntent"
  /\ ret' = classifyIntent(arg)
  /\ UNCHANGED << arg, chatVars, lastIndex, history, inflight >>

\* message.match(...) raises a TypeError when the message is not a string
CallExtractEntities ==
  /\ fn = "none"
  /\ fn' = "extractEntities"
  /\ ret' = IF MethodCallThrows(arg) THEN Threw("TypeError")
            ELSE Returned(extractEntities(arg.chars))
  /\ UNCHANGED << arg, chatVars, lastIndex, history, inflight >>

CallSanitizeMessage ==
  /\ fn = "none"
  /\ fn' = "sanitizeMessage"
  /\ ret' = sanitizeMessage(arg)
  /\ UNCHANGED << arg, chatVars, lastIndex, history, inflight >>

CallPreprocessMessage ==
  /\ fn = "none"
  /\ fn' = "preprocessMessage"
  /\ ret' = preprocessMessage(arg)
  /\ UNCHANGED << arg, chatVars, lastIndex, history, inflight >>

\* the messages the services are called on again and again
HistoryMessages ==
  { <<"w","d","t","7","8","0","1">>, <<"w","d","t","7","8","0","1"," ","w","d","t","7","8","0","1">>, <<"p","s","1","2","3","4","5","6">>, <<"f","i","x"," ","t","h","e"," ","f","r","i","d","g","e">> }

\* one more call of detectScope on a process that has served calls before
AgainDetectScope ==
  /\ Len(history) < MaxCalls
  /\ \E message \in HistoryMessages :
       LET run == detectScopeRun(lastIndex, message)
       IN /\ fn' = "detectScope" /\ arg' = Str(message)
          /\ ret' = Resolved(run.result)
          /\ lastIndex' = run.lastIndex
          /\ history' = Append(history, [ fn |-> "detectScope",
                                          message |-> message,
                                          result |-> run.result ])
  /\ UNCHANGED << chatVars, inflight >>

\* one more call of classifyIntent: the patterns it matches with are
\* literals of extractEntities and detectApplianceType, created by the call
AgainClassifyIntent ==
  /\ Len(history) < MaxCalls
  /\ \E message \in HistoryMessages :
       LET result == classifyIntent(Str(message))
       IN /\ fn' = "classifyIntent" /\ arg' = Str(message)
          /\ ret' = result
          /\ history' = Append(history, [ fn |-> "classifyIntent",
                                          message |-> message,
                                          result |-> result ])
  /\ UNCHANGED << chatVars, lastIndex, inflight >>

----------------------------------------------------------------------------
(* Specifications. *)

\* no request in flight, no session stored
InitChat ==
  /\ pc = "idle" /\ body = None /\ sessionId = None /\ messageId = None
  /\ preprocessResult = None /\ scopeResult = None /\ intentResult = None
  /\ orchestratorResult = None /\ response = None
  /\ sessionStore = [id \in SessionIds |-> NoSession]
  /\ nextMessageId = 0 /\ calls = <<>> /\ requests = 0 /\ now = 0
  /\ storeBefore = sessionStore /\ shutdown = None

\* the patterns as constants.js creates them; no call made yet
InitPatterns == lastIndex = [PART_NUMBER |-> 0, MODEL_NUMBER |-> 0] /\ history = <<>>

\* the same, with no request handled concurrently
InitShared == InitPatterns /\ inflight = <<>>

\* an argument is drawn; no function has been called on it yet
Init ==
  /\ arg \in Arguments /\ fn = "none" /\ ret = None
  /\ InitChat /\ InitShared

\* the services called directly on the argument, in any order
Next == CallDetectScope \/ CallClassifyIntent \/ CallExtractEntities

Spec == Init /\ [][Next]_vars

\* chat requests handled one after the other by handleChatMessage
NextChat ==
  \/ Begin \/ CreateSession \/ Preprocess \/ DetectScope
  \/ OutOfScopeUser \/ OutOfScopeAssistant \/ OutOfScopeRespond
  \/ ClassifyIntent \/ ProcessMessage \/ HistoryUser \/ HistoryAssistant
  \/ Respond \/ Tick \/ Shutdown

\* no service is called directly while requests are handled
InitRequests ==
  arg = None /\ fn = "none" /\ ret = None /\ InitChat /\ InitShared

SpecChat == InitRequests /\ [][NextChat]_vars

\* a text is drawn; neither function has been called on it yet
InitText ==
  /\ arg \in TextArguments /\ fn = "none" /\ ret = None
  /\ InitChat /\ InitShared

\* the sanitizer and the preprocessor called directly on the text
NextText == CallSanitizeMessage \/ CallPreprocessMessage

SpecText == InitText /\ [][NextText]_vars

\* a process that has served no call yet
InitHistory ==
  /\ arg = None /\ fn = "none" /\ ret = None
  /\ InitChat /\ InitShared

\* the two services called again and again, in any order
NextHistory == AgainDetectScope \/ AgainClassifyIntent

SpecHistory == InitHistory /\ [][NextHistory]_vars

\* every request is still to arrive, no session is stored
InitConcurrent ==
  /\ arg = None /\ fn = "none" /\ ret = None
  /\ InitChat /\ InitPatterns
  /\ inflight = [ r \in 1..MaxInflight |-> IdleRequest ]

\* requests handled concurrently: at each await of handleChatMessage any
\* other request may run
NextConcurrent ==
  \E r \in 1..MaxInflight :
    \/ Arrive(r) \/ CreateSessionFor(r) \/ PreprocessFor(r) \/ DetectScopeFor(r)
    \/ ClassifyIntentFor(r) \/ ProcessMessageFor(r) \/ UserEntryFor(r)
    \/ AssistantEntryFor(r) \/ RespondTo(r)

SpecConcurrent == InitConcurrent /\ [][NextConcurrent]_vars

----------------------------------------------------------------------------
(* Properties of the scope detector, the entity extractor and the intent   *)
(* classifier, checked under Spec, and of handleChatMessage, checked under *)
(* SpecChat.                                                               *)

\* detectScope has been called on a string and its promise is settled
ScopeCallOnString == fn = "detectScope" /\ isMessageString(arg)

\* classifyIntent has been called on a string and its promise is settled
IntentCallOnString == fn = "classifyIntent" /\ isMessageString(arg)

\* C1: every message that matches the part-number pattern or the
\* model-number pattern (case-insensitively) gets inScope = true,
\* confidence 1.0 and category parts_inquiry from detectScope, whatever
\* keywords it also contains.
C1_PatternOverride ==
  ( /\ ScopeCallOnString
    /\ (PART_NUMBER_test(arg.chars) \/ MODEL_NUMBER_test(arg.chars)) )
  => /\ ret.status = "resolved"
     /\ ret.value.inScope = TRUE
     /\ ret.value.confidence = 100
     /\ ret.value.category = "parts_inquiry"

\* a part number beside out-of-scope keywords that outweigh the in-scope
\* ones by more than 20 ("PS123456 weather joke"), judged in scope
C1_Witness ==
  /\ ScopeCallOnString
  /\ PART_NUMBER_test(arg.chars)
  /\ LET tokens == SplitWhitespace(arg.chars)
     IN calculateOutOfScopeScore(tokens) > calculateInScopeScore(tokens) + 20
  /\ ret.status = "resolved"
  /\ ret.value.confidence = 100

\* C2: for a message matching neither identifier pattern, with keyword
\* scores in and out (each 0..100), detectScope answers out of scope
\* (category out_of_scope, confidence min(0.95, out/100)) exactly when
\* out > in + 20; otherwise in scope by keywords (sub-classified category,
\* confidence min(0.95, in/100)) exactly when in > out + 10; otherwise in
\* scope with confidence 0.5 and category general_inquiry.
C2_DecisionRule ==
  ( /\ ScopeCallOnString
    /\ ~PART_NUMBER_test(arg.chars)
    /\ ~MODEL_NUMBER_test(arg.chars) )
  => /\ ret.status = "resolved"
     /\ LET r == ret.value
            tokens == SplitWhitespace(arg.chars)
            in == r.score.inScope
            out == r.score.outOfScope
        IN /\ in = calculateInScopeScore(tokens) /\ in \in 0..100
           /\ out = calculateOutOfScopeScore(tokens) /\ out \in 0..100
           /\ IF out > in + 20
              THEN /\ r.inScope = FALSE
                   /\ r.category = "out_of_scope"
                   /\ r.confidence = Min(95, out)
              ELSE IF in > out + 10
              THEN /\ r.inScope = TRUE
                   /\ r.category = categorizeInScopeMessage(tokens)
                   /\ r.confidence = Min(95, in)
              ELSE /\ r.inScope = TRUE
                   /\ r.category = "general_inquiry"
                   /\ r.confidence = 50

\* the score pair in = 31, out = 20 decided in scope by keywords
C2_Witness ==
  /\ ScopeCallOnString
  /\ ret.status = "resolved"
  /\ ret.value.score = [inScope |-> 31, outOfScope |-> 20, patterns |-> 0]
  /\ ret.value.reason = "Message contains relevant keywords"

\* C3: detectScope never rejects; on an internal error, a message that is
\* not a string included, it resolves to inScope = true, confidence 0.3,
\* category general_inquiry.
C3_ScopeFailSoft ==
  fn = "detectScope"
  => /\ ret.status = "resolved"
     /\ ~isMessageString(arg)
          => /\ ret.value.inScope = TRUE
             /\ ret.value.confidence = 30
             /\ ret.value.category = "general_inquiry"

\* C4: classifyIntent never rejects; on an internal error, a message that
\* is not a string included, it resolves to intent general_inquiry,
\* confidence 0.3, with empty keywords, context and scores.
C4_IntentFailSoft ==
  fn = "classifyIntent"
  => /\ ret.status = "resolved"
     /\ ~isMessageString(arg)
          => /\ ret.value.intent = "general_inquiry"
             /\ ret.value.confidence = 30
             /\ ret.value.keywords = <<>>
             /\ DOMAIN ret.value.context = {}
             /\ DOMAIN ret.value.scores = {}

\* classifyIntent called on undefined and settled
C4_Witness ==
  /\ fn = "classifyIntent"
  /\ arg = Undefined
  /\ ret.status = "resolved"
  /\ ret.value.intent = "general_inquiry"

\* the chat request carrying one of the README's out-of-scope queries has
\* been answered
ReadmeQueryAnswered ==
  /\ pc = "done"
  /\ body.message \in { Str(q) : q \in ReadmeOutOfScopeQueries }

\* C5: each out-of-scope example query of the README, sent to
\* handleChatMessage as written, is deflected: detectScope returns
\* inScope = false and the response has type out_of_scope with
\* metadata.inScope = false.
C5_ReadmeQueriesDeflected ==
  ReadmeQueryAnswered
  => /\ scopeResult # None
     /\ scopeResult.inScope = FALSE
     /\ response.kind = "json"
     /\ response.type = "out_of_scope"
     /\ response.metadata.inScope = FALSE

\* C6: detectScope on "tell me a joke about the weather" returns
\* inScope = false with category out_of_scope, its out-of-scope score
\* exceeding its in-scope score by more than 20.
C6_JokeAboutTheWeather ==
  (fn = "detectScope" /\ arg = Str(JokeAboutTheWeather))
  => /\ ret.status = "resolved"
     /\ ret.value.inScope = FALSE
     /\ ret.value.category = "out_of_scope"
     /\ ret.value.score.outOfScope > ret.value.score.inScope + 20

\* detectScope called on "tell me a joke about the weather" and settled
C6_Witness ==
  /\ fn = "detectScope"
  /\ arg = Str(JokeAboutTheWeather)
  /\ ret.status = "resolved"
  /\ ret.value.score.outOfScope = 50

\* C7: extractEntities("Is PS11752778 compatible with WDT780SAEM1?")
\* returns partNumbers = {"PS11752778"} and modelNumbers = {"WDT780SAEM1"}.
C7_EntitiesOfCompatibleQuestion ==
  (fn = "extractEntities" /\ arg = Str(CompatibleQuestion))
  => /\ ret.status = "returned"
     /\ Range(ret.value.partNumbers) = { <<"P","S","1","1","7","5","2","7","7","8">> }
     /\ Range(ret.value.modelNumbers) = { <<"W","D","T","7","8","0","S","A","E","M","1">> }

\* C8: classifyIntent on "how do i install PS11752778" returns intent
\* installation_guide, the single highest of the five scores, with
\* context.partNumber = "PS11752778".
C8_InstallQuestion ==
  (fn = "classifyIntent" /\ arg = Str(InstallQuestion))
  => /\ ret.status = "resolved"
     /\ ret.value.intent = "installation_guide"
     /\ \A i \in Range(INTENT_ORDER) \ {"installation_guide"} :
          ret.value.scores[i] < ret.value.scores["installation_guide"]
     /\ ret.value.context.partNumber = Str(<<"P","S","1","1","7","5","2","7","7","8">>)

\* classifyIntent called on "how do i install PS11752778" and settled
C8_Witness ==
  /\ fn = "classifyIntent"
  /\ arg = Str(InstallQuestion)
  /\ ret.status = "resolved"
  /\ ret.value.scores["installation_guide"] > 0

\* the intent of the chat request was classified with all five scores 0
AllScoresZero ==
  /\ intentResult # None
  /\ \A i \in Range(INTENT_ORDER) : intentResult.scores[i] = 0

\* C9: a message matching no trigger phrase of any intent (all five scores
\* 0) is classified general_inquiry and handleChatMessage routes it to the
\* general-inquiry handler.
C9_DefaultIntent ==
  AllScoresZero
  => /\ intentResult.intent = "general_inquiry"
     /\ orchestratorResult # None
          => orchestratorResult.handler = "handleGeneralInquiry"

\* position of an intent in the declaration order
IntentIndex(intent) == IndexOf(intent, INTENT_ORDER)

\* the intents whose score is the highest of the five
TopIntents(scores) ==
  { i \in Range(INTENT_ORDER) : \A j \in Range(INTENT_ORDER) : scores[i] >= scores[j] }

\* C10 as stated: the returned intent has a score no lower than any other
\* intent's, and of the intents tied for the highest score the first in
\* declaration order is returned.
C10_TieBreakFirst ==
  IntentCallOnString
  => /\ ret.value.intent \in TopIntents(ret.value.scores)
     /\ \A i \in TopIntents(ret.value.scores) :
          IntentIndex(ret.value.intent) <= IntentIndex(i)

\* C10 amended: the returned intent has a score no lower than any other
\* intent's, and of the intents tied for the highest score the last in
\* declaration order is returned.
C10_TieBreakLast ==
  IntentCallOnString
  => /\ ret.value.intent \in TopIntents(ret.value.scores)
     /\ \A i \in TopIntents(ret.value.scores) :
          IntentIndex(ret.value.intent) >= IntentIndex(i)

\* two intents tied for a highest score that is positive
C10_Witness ==
  /\ IntentCallOnString
  /\ Cardinality(TopIntents(ret.value.scores)) >= 2
  /\ ret.value.scores[ret.value.intent] > 0

----------------------------------------------------------------------------
(* Properties of the order of the calls in handleChatMessage, of the       *)
(* sanitizer and of the scores.                                            *)

\* the service s has been called for the chat request in progress
Called(s) == Contains(calls, s)

\* C11: within one chat request classifyIntent and processMessage are
\* called only after detectScope has returned inScope = true; when
\* detectScope returns inScope = false neither is called and the request
\* is answered with response type out_of_scope.
C11_ScopeGate ==
  /\ (Called("classifyIntent") \/ Called("processMessage"))
       => /\ calls[1] = "detectScope"
          /\ scopeResult # None
          /\ scopeResult.inScope = TRUE
  /\ Called("processMessage") => calls = <<"detectScope", "classifyIntent", "processMessage">>
  /\ (scopeResult # None /\ scopeResult.inScope = FALSE)
       => /\ calls = <<"detectScope">>
          /\ pc \in {"outOfScope", "outOfScopeAssistant", "outOfScopeRespond", "done"}
          /\ pc = "done" => (response.kind = "json" /\ response.type = "out_of_scope")

\* a request detectScope judged out of scope, answered
C11_Witness ==
  /\ pc = "done"
  /\ scopeResult # None
  /\ scopeResult.inScope = FALSE
  /\ response.kind = "json"
  /\ response.type = "out_of_scope"
  /\ calls = <<"detectScope">>

\* sanitizeMessage has been called on a string
SanitizeCallOnString == fn = "sanitizeMessage" /\ isMessageString(arg)

\* C12: sanitizer idempotence: for every string x,
\* sanitizeMessage(sanitizeMessage(x).cleaned).cleaned equals
\* sanitizeMessage(x).cleaned.
C12_SanitizeIdempotent ==
  SanitizeCallOnString
  => /\ ~ret.threw
     /\ LET again == sanitizeMessage(Str(ret.value.cleaned))
        IN ~again.threw /\ again.value.cleaned = ret.value.cleaned

\* a text of four characters cleaned to "a a"
C12_Witness ==
  /\ SanitizeCallOnString
  /\ Len(arg.chars) = 4
  /\ ~ret.threw
  /\ ret.value.cleaned = <<"a", " ", "a">>

\* the characters U+0000-U+0008, U+000B-U+000C, U+000E-U+001F and U+007F
\* that occur in the modelled texts
ControlCharacters == {NUL, BEL, VT, FF, ESC, DEL}

\* C13: for every string x, sanitizeMessage(x).cleaned contains no control
\* character (U+0000-U+0008, U+000B-U+000C, U+000E-U+001F, U+007F), has no
\* leading or trailing whitespace, and contains no whitespace other than
\* single spaces that separate runs of other characters.
C13_CleanedShape ==
  SanitizeCallOnString
  => /\ ~ret.threw
     /\ LET c == ret.value.cleaned
        IN \A i \in 1..Len(c) :
             /\ c[i] \notin ControlCharacters
             /\ IsSpace(c[i])
                  => /\ c[i] = " "
                     /\ 1 < i /\ i < Len(c)
                     /\ ~IsSpace(c[i - 1]) /\ ~IsSpace(c[i + 1])

\* "a", U+007F, a tab, "a" cleaned to "a a"
C13_Witness ==
  /\ SanitizeCallOnString
  /\ arg.chars = <<"a", DEL, "\t", "a">>
  /\ ~ret.threw
  /\ ret.value.cleaned = <<"a", " ", "a">>

\* C14: sanitizeMessage throws exactly when its argument is not a string;
\* every string, whatever its content, yields a record with the fields
\* original, cleaned, sanitized and lowercase.
C14_ThrowsIffNotString ==
  fn = "sanitizeMessage"
  => /\ ret.threw <=> ~isMessageString(arg)
     /\ ret.threw => ret.error = "Message must be a string"
     /\ ~ret.threw
          => /\ DOMAIN ret.value = {"original", "cleaned", "sanitized", "lowercase"}
             /\ ret.value.original = arg.chars

\* the empty string sanitized without an error
C14_Witness ==
  /\ fn = "sanitizeMessage"
  /\ arg = Str(<<>>)
  /\ ~ret.threw
  /\ ret.value.cleaned = <<>>

\* preprocessMessage has been called on a string of valid length
PreprocessCallOnValidLength ==
  /\ fn = "preprocessMessage"
  /\ isMessageString(arg)
  /\ Len(Trim(arg.chars)) \in 1..5000

\* the text with the control characters removed, then trimmed and its
\* whitespace runs collapsed
Stripped(text) ==
  normalizeWhitespace(Trim(SelectSeq(text, LAMBDA c : c \notin ControlCharacters)))

\* C15 as stated: for every string of valid length that contains control
\* characters, preprocessMessage returns a record whose cleaned text is
\* the input with those characters removed (then trimmed and
\* whitespace-collapsed); it does not throw because of them.
C15_ControlCharsStripped ==
  ( /\ PreprocessCallOnValidLength
    /\ \E i \in 1..Len(arg.chars) : arg.chars[i] \in ControlCharacters )
  => /\ ~ret.threw
     /\ ret.value.cleaned = Stripped(arg.chars)

\* C15 amended: a string of valid length that contains a character in
\* U+0000-U+0008, U+000B-U+000C or U+000E-U+001F is refused with the error
\* "Message contains invalid characters"; one whose only control
\* characters are U+007F is accepted and its cleaned text is the input
\* with them removed (then trimmed and whitespace-collapsed).
C15_ControlCharsRefused ==
  ( /\ PreprocessCallOnValidLength
    /\ \E i \in 1..Len(arg.chars) : arg.chars[i] \in ControlCharacters )
  => IF \E i \in 1..Len(arg.chars) : arg.chars[i] \in ControlCharacters \ {DEL}
     THEN ret.threw /\ ret.error = "Message contains invalid characters"
     ELSE ~ret.threw /\ ret.value.cleaned = Stripped(arg.chars)

\* "a", U+0000 refused
C15_Witness ==
  /\ PreprocessCallOnValidLength
  /\ arg.chars = <<"a", NUL>>
  /\ ret.threw
  /\ ret.error = "Message contains invalid characters"

\* the matches of the model-number pattern with letter case ignored, in
\* upper case, without those that start with PS
ModelNumbersIgnoringCase(text) ==
  LET lens == <<>> \o [ j \in 1..Len(text) |-> ModelNumberMatchLen(text, j, TRUE) ]
      matches == MatchesFrom(text, lens, 1)
  IN { ToUpperCase(matches[k]) : k \in { n \in 1..Len(matches) :
         ~StartsWith(ToUpperCase(matches[n]), <<"P", "S">>) } }

\* C16: extractEntities returns as modelNumbers every match of the
\* model-number pattern found with letter case ignored (a lowercase
\* "wdt7801" just as "WDT7801"), except the matches that start with PS.
C16_ModelNumbersIgnoreCase ==
  (fn = "extractEntities" /\ isMessageString(arg))
  => /\ ret.status = "returned"
     /\ { ToUpperCase(m) : m \in Range(ret.value.modelNumbers) }
          = ModelNumbersIgnoringCase(arg.chars)

\* the keyword score as documented: for every token, exact points when the
\* token equals a keyword with its internal spaces removed, plus partial
\* points when the token is part of a keyword or contains one; at most 100
DocumentedScore(tokens, keywords, exact, partial) ==
  LET exactTokens ==
        { t \in 1..Len(tokens) :
            \E k \in 1..Len(keywords) : tokens[t] = RemoveWhitespace(keywords[k]) }
      partialTokens ==
        { t \in 1..Len(tokens) :
            \E k \in 1..Len(keywords) :
               Includes(keywords[k], tokens[t]) \/ Includes(tokens[t], keywords[k]) }
  IN Min(100, exact * Cardinality(exactTokens) + partial * Cardinality(partialTokens))

\* C18 as stated: the in-scope score is the documented score with the in-scope table
\* and the weights 10 and 3, the out-of-scope score the one with the
\* out-of-scope table and the weights 15 and 5; the token "icemaker" earns
\* the exact-match points of "ice maker", "stockmarket" those of
\* "stock market".
C18_DocumentedScores ==
  ( /\ ScopeCallOnString
    /\ ~PART_NUMBER_test(arg.chars)
    /\ ~MODEL_NUMBER_test(arg.chars) )
  => /\ ret.status = "resolved"
     /\ LET tokens == SplitWhitespace(arg.chars)
        IN /\ ret.value.score.inScope
                = DocumentedScore(tokens, IN_SCOPE_KEYWORDS, 10, 3)
           /\ ret.value.score.outOfScope
                = DocumentedScore(tokens, OUT_OF_SCOPE_KEYWORDS, 15, 5)

\* the keyword score with the exact match taken on the keyword as the
\* table writes it
WrittenScore(tokens, keywords, exact, partial) ==
  LET exactTokens ==
        { t \in 1..Len(tokens) : \E k \in 1..Len(keywords) : tokens[t] = keywords[k] }
      partialTokens ==
        { t \in 1..Len(tokens) :
            \E k \in 1..Len(keywords) :
               Includes(keywords[k], tokens[t]) \/ Includes(tokens[t], keywords[k]) }
  IN Min(100, exact * Cardinality(exactTokens) + partial * Cardinality(partialTokens))

\* C18 amended: the exact-match points go to a token that equals a keyword
\* as the table writes it, internal spaces included; "icemaker" earns none
\* for "ice maker" and "stockmarket" none for "stock market".
C18_ScoresAsWritten ==
  ( /\ ScopeCallOnString
    /\ ~PART_NUMBER_test(arg.chars)
    /\ ~MODEL_NUMBER_test(arg.chars) )
  => /\ ret.status = "resolved"
     /\ LET tokens == SplitWhitespace(arg.chars)
        IN /\ ret.value.score.inScope
                = WrittenScore(tokens, IN_SCOPE_KEYWORDS, 10, 3)
           /\ ret.value.score.outOfScope
                = WrittenScore(tokens, OUT_OF_SCOPE_KEYWORDS, 15, 5)
     /\ arg.chars \in {Icemaker, Stockmarket}
          => ret.value.score = [inScope |-> 0, outOfScope |-> 0, patterns |-> 0]

\* detectScope called on "icemaker": no points
C18_Witness ==
  /\ ScopeCallOnString
  /\ arg.chars = Icemaker
  /\ ret.status = "resolved"
  /\ ret.value.score.inScope = 0

\* the points of one token against one trigger phrase: 15 when the token
\* equals the phrase, with or without its internal spaces, 5 when the
\* phrase contains the token and the token is longer than 2 characters
TriggerPoints(token, trigger) ==
  IF token = trigger \/ token = RemoveWhitespace(trigger) THEN 15
  ELSE IF Len(token) > 2 /\ Includes(trigger, token) THEN 5
  ELSE 0

\* the pairs <<token index, trigger index>> that earn points
TriggerMatches(tokens, triggers) ==
  { p \in (1..Len(tokens)) \X (1..Len(triggers)) :
      TriggerPoints(tokens[p[1]], triggers[p[2]]) > 0 }

\* the sum of the points over all tokens and trigger phrases
PerTokenScore(tokens, triggers) ==
  LET matches == TriggerMatches(tokens, triggers)
      exact == { p \in matches : TriggerPoints(tokens[p[1]], triggers[p[2]]) = 15 }
  IN 15 * Cardinality(exact) + 5 * Cardinality(matches \ exact)

\* C19 as stated: the bonus is 5 times the number of distinct trigger
\* phrases matched, added only when more than one distinct phrase matched;
\* the tokens "order", "order" earn no bonus for order_support.
C19_BonusDistinct ==
  IntentCallOnString
  => \A i \in Range(INTENT_ORDER) :
       LET tokens == SplitWhitespace(arg.chars)
           triggers == INTENT_KEYWORDS[i]
           distinct == Cardinality({ triggers[p[2]] : p \in TriggerMatches(tokens, triggers) })
       IN ret.value.scores[i]
            = Min(100, PerTokenScore(tokens, triggers)
                         + (IF distinct > 1 THEN 5 * distinct ELSE 0))

\* C19 amended: the bonus is 5 times the number of matches, one for every
\* pair of a token and a trigger phrase that earned points, added only
\* when there is more than one; the tokens "order", "order" earn a bonus
\* of 10 for order_support.
C19_BonusPerMatch ==
  IntentCallOnString
  => /\ \A i \in Range(INTENT_ORDER) :
          LET tokens == SplitWhitespace(arg.chars)
              triggers == INTENT_KEYWORDS[i]
              count == Cardinality(TriggerMatches(tokens, triggers))
          IN ret.value.scores[i]
               = Min(100, PerTokenScore(tokens, triggers)
                            + (IF count > 1 THEN 5 * count ELSE 0))
     /\ arg.chars = <<"o","r","d","e","r"," ","o","r","d","e","r">>
          => ret.value.scores["order_support"] = 40

\* classifyIntent called on "order order": 30 points and a bonus of 10
C19_Witness ==
  /\ IntentCallOnString
  /\ arg.chars = <<"o","r","d","e","r"," ","o","r","d","e","r">>
  /\ ret.value.scores["order_support"] = 40

\* the pattern score as documented: 40 for a part number, 30 for a model
\* number, 20 for an appliance-type word, at most 100
DocumentedPatternScore(text) ==
  Min(100, (IF PART_NUMBER_test(text) THEN 40 ELSE 0)
             + (IF MODEL_NUMBER_test(text) THEN 30 ELSE 0)
             + (IF \E w \in { <<"r","e","f","r","i","g","e","r","a","t","o","r">>, <<"f","r","i","d","g","e">>, <<"d","i","s","h","w","a","s","h","e","r">> } :
                     Includes(ToLowerCase(text), w)
                THEN 20 ELSE 0))

\* the score record holding the scores computed for the text
ComputedScores(text) ==
  [ inScope |-> calculateInScopeScore(SplitWhitespace(text)),
    outOfScope |-> calculateOutOfScopeScore(SplitWhitespace(text)),
    patterns |-> DocumentedPatternScore(text) ]

\* C20 as stated: the score record of every ScopeResult reports the
\* computed pattern score and the computed keyword scores, in every
\* branch, the pattern-override rule included.
C20_ScoresReported ==
  ScopeCallOnString
  => /\ ret.status = "resolved"
     /\ ret.value.score = ComputedScores(arg.chars)

\* C20 amended: the score record reports the computed scores in every
\* branch but the pattern-override rule, whose results carry the fixed
\* scores inScope 100, outOfScope 0 and patterns 100.
C20_ScoresReportedUnlessOverride ==
  ScopeCallOnString
  => /\ ret.status = "resolved"
     /\ ret.value.score
          = IF PART_NUMBER_test(arg.chars) \/ MODEL_NUMBER_test(arg.chars)
            THEN [inScope |-> 100, outOfScope |-> 0, patterns |-> 100]
            ELSE ComputedScores(arg.chars)

\* detectScope called on "Fridge part": pattern score 20
C20_Witness ==
  /\ ScopeCallOnString
  /\ arg.chars = FridgePart
  /\ ret.status = "resolved"
  /\ ret.value.score.patterns = 20


\* the calls of the history that were made on the same function and message
SameCall(i, j) ==
  /\ history[i].fn = history[j].fn
  /\ history[i].message = history[j].message

\* C17: detectScope and classifyIntent are deterministic and independent of
\* the calls made before: two calls of one function on one message give
\* the same result whatever was called in between, each result is the one
\* a process that has served nothing gives, and no call leaves a position
\* in the shared patterns
C17_HistoryIndependent ==
  /\ \A i, j \in DOMAIN history : SameCall(i, j) => history[i].result = history[j].result
  /\ \A i \in DOMAIN history :
       history[i].result =
         IF history[i].fn = "detectScope"
         THEN detectScopeRun([PART_NUMBER |-> 0, MODEL_NUMBER |-> 0],
                             history[i].message).result
         ELSE classifyIntent(Str(history[i].message))
  /\ lastIndex = [PART_NUMBER |-> 0, MODEL_NUMBER |-> 0]

\* detectScope was called on a model number, then on a message holding two,
\* then on the first message again, with the same result
C17_Witness ==
  /\ Len(history) = 3
  /\ history[1].fn = "detectScope" /\ history[1].message = <<"w","d","t","7","8","0","1">>
  /\ history[2].fn = "detectScope" /\ history[2].message = <<"w","d","t","7","8","0","1"," ","w","d","t","7","8","0","1">>
  /\ history[3].fn = "detectScope" /\ history[3].message = <<"w","d","t","7","8","0","1">>
  /\ history[3].result = history[1].result
  /\ history[1].result.inScope

----------------------------------------------------------------------------
(* Claims C21 to C30. *)

\* the categories of the keyword branch in their priority, with their terms
CategoryTerms ==
  << [ category |-> "installation_inquiry",
       terms |-> { <<"i","n","s","t","a","l","l">>, <<"s","e","t","u","p">>, <<"a","s","s","e","m","b","l","e">>, <<"a","t","t","a","c","h">>, <<"h","o","w"," ","t","o">> } ],
     [ category |-> "compatibility_check",
       terms |-> { <<"c","o","m","p","a","t","i","b","l","e">>, <<"f","i","t">>, <<"w","o","r","k"," ","w","i","t","h">>, <<"s","u","p","p","o","r","t">>, <<"m","a","t","c","h">> } ],
     [ category |-> "troubleshooting_inquiry",
       terms |-> { <<"b","r","o","k","e","n">>, <<"n","o","t"," ","w","o","r","k","i","n","g">>, <<"f","i","x">>, <<"r","e","p","a","i","r">>, <<"p","r","o","b","l","e","m">>,
                   <<"i","s","s","u","e">>, <<"l","e","a","k">>, <<"f","r","e","e","z","e">>, <<"n","o","i","s","e">> } ],
     [ category |-> "order_support",
       terms |-> { <<"o","r","d","e","r">>, <<"p","r","i","c","e">>, <<"c","o","s","t">>, <<"b","u","y">>, <<"c","a","r","t">>,
                   <<"c","h","e","c","k","o","u","t">>, <<"s","h","i","p","p","i","n","g">> } ] >>

\* the category of the first entry of CategoryTerms with a term in the text
FirstCategory(text) ==
  LET matching == { k \in 1..Len(CategoryTerms) :
                      \E term \in CategoryTerms[k].terms : Includes(text, term) }
  IN IF matching = {} THEN "parts_inquiry"
     ELSE CategoryTerms[CHOOSE k \in matching : \A l \in matching : k <= l].category

\* detectScope answered a string from its in-scope keyword branch
KeywordBranch ==
  /\ ScopeCallOnString
  /\ ret.status = "resolved"
  /\ ret.value.reason = "Message contains relevant keywords"

\* C21: in the in-scope keyword branch the category is that of the first
\* of installation, compatibility, trouble and order whose terms occur in
\* the joined lowercase tokens, else parts_inquiry; it is never
\* general_inquiry or out_of_scope.
C21_CategoryPriority ==
  KeywordBranch
    => /\ ret.value.category
            = FirstCategory(ToLowerCase(Join(SplitWhitespace(arg.chars))))
       /\ ret.value.category \notin {"general_inquiry", "out_of_scope"}

\* a message with "broken" before "install" is an installation inquiry
C21_Witness ==
  /\ KeywordBranch
  /\ arg = Str(BrokenPartInstall)
  /\ ret.value.category = "installation_inquiry"

\* the text the Tokenizer's tokens of the request spell, one space between
TokenizedText == Str(Join(preprocessResult.tokens))

\* C22: what detectScope and classifyIntent score for the message of a
\* chat request is the Tokenizer's output for its cleaned text (lowercase
\* tokens split on whitespace and punctuation): the scope result and the
\* intent scores of the request are those of the tokens preprocessMessage
\* produced, whatever the letter case and punctuation of the message.
C22_ScoredOnTokenizerOutput ==
  /\ scopeResult # None
       => scopeResult = detectScope(TokenizedText).value
  /\ intentResult # None
       => /\ intentResult.intent = classifyIntent(TokenizedText).value.intent
          /\ intentResult.scores = classifyIntent(TokenizedText).value.scores

\* C23: for every message (a string), IntentResult.scores has the five
\* intents as its entries, each an integer in 0..100, and
\* IntentResult.confidence is min(winningScore / 100, 0.99), in hundredths
\* min(winningScore, 99), so it lies in 0..99 and a winning score of 99 or
\* of 100 gives 0.99.
C23_ScoresAndConfidence ==
  IntentCallOnString
    => /\ DOMAIN ret.value.scores = Range(INTENT_ORDER)
       /\ \A i \in Range(INTENT_ORDER) : ret.value.scores[i] \in 0..100
       /\ ret.value.confidence
            = Min(ret.value.scores[ret.value.intent], 99)
       /\ ret.value.confidence \in 0..99
       /\ ret.value.scores[ret.value.intent] >= 99 => ret.value.confidence = 99

\* six times "order": 120 points are reported as 100, the confidence is 0.99
C23_Witness ==
  /\ IntentCallOnString
  /\ arg = Str(SixOrders)
  /\ ret.value.intent = "order_support"
  /\ ret.value.scores["order_support"] = 100
  /\ ret.value.confidence = 99

\* the six characters with an entity, and their entities
Entities ==
  << << "&", <<"&","a","m","p",";">> >>, << "<", <<"&","l","t",";">> >>, << ">", <<"&","g","t",";">> >>,
     << "\"", <<"&","q","u","o","t",";">> >>, << "'", <<"&","#","3","9",";">> >>, << "/", <<"&","#","x","2","F",";">> >> >>

\* the entity of a character, the character itself if it has none
EntityOf(c) ==
  IF \E k \in 1..Len(Entities) : Entities[k][1] = c
  THEN Entities[CHOOSE k \in 1..Len(Entities) : Entities[k][1] = c][2]
  ELSE <<c>>

\* whether the text holds the entity at index i
EntityAt(text, i, entity) ==
  /\ i + Len(entity) - 1 <= Len(text)
  /\ SubSeq(text, i, i + Len(entity) - 1) = entity

\* the text from index i on with the six entities replaced back, in one
\* pass from left to right
RECURSIVE DecodeFrom(_, _)
DecodeFrom(text, i) ==
  IF i > Len(text) THEN <<>>
  ELSE IF \E k \in 1..Len(Entities) : EntityAt(text, i, Entities[k][2])
  THEN LET k == CHOOSE j \in 1..Len(Entities) : EntityAt(text, i, Entities[j][2])
       IN << Entities[k][1] >> \o DecodeFrom(text, i + Len(Entities[k][2]))
  ELSE << text[i] >> \o DecodeFrom(text, i + 1)

\* C24: sanitizeMessage(x).sanitized is the cleaned text with each of
\* & < > " ' / replaced by its entity, once, and every other character
\* unchanged; it holds none of < > " ' /, and replacing the six entities
\* back recovers cleaned exactly.
C24_HtmlEncoding ==
  SanitizeCallOnString
    => LET cleaned == ret.value.cleaned
           sanitized == ret.value.sanitized
       IN /\ sanitized = Flatten([ i \in 1..Len(cleaned) |-> EntityOf(cleaned[i]) ])
          /\ \A i \in 1..Len(sanitized) : sanitized[i] \notin {"<", ">", "\"", "'", "/"}
          /\ DecodeFrom(sanitized, 1) = cleaned

\* a text that holds an entity already is encoded once: &lt; gives &amp;lt;
C24_Witness ==
  /\ SanitizeCallOnString
  /\ arg = Str(<<"&","l","t",";">>)
  /\ ret.value.sanitized = <<"&","a","m","p",";","l","t",";">>

\* C25: clearExpiredSessions(0), as gracefulShutdown calls it, removes
\* every session from the store whatever its lastActivity, a session touched
\* at the instant of the call included, and returns the number of sessions
\* removed; afterwards getSession returns null for every id.
C25_ShutdownClearsAll ==
  shutdown # None
    => /\ \A id \in SessionIds : ~sessionStore[id].exists
       /\ shutdown.clearedCount = shutdown.sessions

\* the chat request being handled has been answered with HTTP 200, and the
\* process has not been shut down since
Answered200 == pc = "done" /\ response.status = 200 /\ shutdown = None

\* the chat request being handled has been answered with an error
AnsweredError == pc = "done" /\ response.kind = "error" /\ shutdown = None

\* the history the request's session had when the request arrived
HistoryBefore(id) ==
  IF storeBefore[id].exists THEN storeBefore[id].conversationHistory ELSE <<>>

\* the history is made of pairs: a user entry, then the assistant entry of
\* the same message id, the pairs in the order the ids were generated
PairedInOrder(h) ==
  /\ Len(h) % 2 = 0
  /\ \A k \in 1..(Len(h) \div 2) :
       /\ h[2 * k - 1].role = "user"
       /\ h[2 * k].role = "assistant"
       /\ h[2 * k].messageId = h[2 * k - 1].messageId
       /\ k > 1 => h[2 * k - 2].messageId < h[2 * k - 1].messageId

\* C26: every chat request answered with HTTP 200, in scope or out of
\* scope, appends exactly two entries to its session's history, a user
\* entry and then an assistant entry with the same messageId; between
\* requests every history is made of such pairs in request order, so n
\* requests answered on a session leave 2n entries.
C26_TwoEntriesPerRequest ==
  /\ Answered200
       => LET before == HistoryBefore(sessionId)
              h == sessionStore[sessionId].conversationHistory
          IN /\ Len(h) = Len(before) + 2
             /\ SubSeq(h, 1, Len(before)) = before
             /\ h[Len(h) - 1].role = "user"
             /\ h[Len(h)].role = "assistant"
             /\ h[Len(h) - 1].messageId = messageId
             /\ h[Len(h)].messageId = messageId
  /\ pc \in {"idle", "done"}
       => \A id \in SessionIds :
            sessionStore[id].exists
              => PairedInOrder(sessionStore[id].conversationHistory)

\* two requests answered on one session, the first out of scope and the
\* second in scope: four entries
C26_Witness ==
  /\ Answered200
  /\ Len(sessionStore[sessionId].conversationHistory) = 4
  /\ sessionStore[sessionId].conversationHistory[2].message = "out-of-scope deflection"
  /\ "processMessage" \in Range(calls)

\* C27 as stated: a chat request that ends in an error response creates no
\* session and adds no history entry: the session ids of the store and
\* every session's history are as before the request.
C27_ErrorLeavesStore ==
  AnsweredError
    => \A id \in SessionIds :
         /\ sessionStore[id].exists = storeBefore[id].exists
         /\ sessionStore[id].exists
              => sessionStore[id].conversationHistory = HistoryBefore(id)

\* C27 amended: a chat request that ends in an error response adds no
\* history entry and removes no session; after a validation failure the
\* session ids are as before, and after an exception the only session that
\* may be new is the request's own, created in step 2 with an empty
\* history.
C27_ErrorLeavesHistories ==
  AnsweredError
    => \A id \in SessionIds :
         /\ storeBefore[id].exists => sessionStore[id].exists
         /\ sessionStore[id].exists
              => sessionStore[id].conversationHistory = HistoryBefore(id)
         /\ (sessionStore[id].exists /\ ~storeBefore[id].exists)
              => response.status # 400 /\ id = sessionId

\* preprocessMessage rejected the message of a request whose session had
\* just been created
C27_Witness ==
  /\ AnsweredError
  /\ response.status = 500
  /\ preprocessResult = None
  /\ sessionStore[sessionId].exists
  /\ ~storeBefore[sessionId].exists

\* requests r and s carried the same session id and both have been answered
\* with HTTP 200
BothAnswered(r, s) ==
  /\ r # s
  /\ inflight[r].pc = "done" /\ inflight[s].pc = "done"
  /\ inflight[r].response.status = 200 /\ inflight[s].response.status = 200
  /\ inflight[r].sessionId = inflight[s].sessionId

\* the history holds the user entry and the assistant entry of request r
HoldsPairOf(h, r) ==
  \E i, j \in 1..Len(h) :
    /\ i < j
    /\ h[i].role = "user" /\ h[i].messageId = inflight[r].messageId
    /\ h[j].role = "assistant" /\ h[j].messageId = inflight[r].messageId

\* C28: two chat requests with the same, previously unknown session id,
\* handled concurrently with every await a point where the other may run:
\* once both have been answered the session's history holds all four
\* entries, the user/assistant pair of each; none is lost to the second
\* request's createSession.
C28_NoEntryLost ==
  \A r, s \in 1..MaxInflight :
    BothAnswered(r, s)
      => LET h == sessionStore[inflight[r].sessionId].conversationHistory
         IN Len(h) = 4 /\ HoldsPairOf(h, r) /\ HoldsPairOf(h, s)

\* the trigger phrases of the winning intent
WinningTriggers == INTENT_KEYWORDS[ret.value.intent]

\* the tokens classifyIntent scored
ScoredTokens == SplitWhitespace(arg.chars)

\* the sequence holds no element twice
NoDuplicates(seq) == \A i, j \in 1..Len(seq) : seq[i] = seq[j] => i = j

\* C29 as stated: IntentResult.keywords holds no duplicates and holds every
\* trigger phrase of the winning intent that contributed points to the
\* winning score; whenever the winning score is positive it is non-empty.
C29_KeywordsCoverScore ==
  IntentCallOnString
    => /\ NoDuplicates(ret.value.keywords)
       /\ \A k \in 1..Len(WinningTriggers) :
            (\E t \in 1..Len(ScoredTokens) :
                KeywordPoints(ScoredTokens[t], WinningTriggers[k]) > 0)
              => Contains(ret.value.keywords, WinningTriggers[k])
       /\ ret.value.scores[ret.value.intent] > 0 => ret.value.keywords # <<>>

\* C29 amended: IntentResult.keywords holds no duplicates and holds every
\* trigger phrase of the winning intent that contributed points through a
\* token that equals it or that it contains; a trigger matched only with
\* its internal spaces removed is not in it.
C29_KeywordsCoverWrittenMatches ==
  IntentCallOnString
    => /\ NoDuplicates(ret.value.keywords)
       /\ \A k \in 1..Len(WinningTriggers) :
            (\E t \in 1..Len(ScoredTokens) :
                /\ KeywordPoints(ScoredTokens[t], WinningTriggers[k]) > 0
                /\ \/ ScoredTokens[t] = WinningTriggers[k]
                   \/ Includes(WinningTriggers[k], ScoredTokens[t]))
              => Contains(ret.value.keywords, WinningTriggers[k])
       /\ \A k \in 1..Len(WinningTriggers) :
            (\A t \in 1..Len(ScoredTokens) :
                /\ ScoredTokens[t] # WinningTriggers[k]
                /\ ~Includes(WinningTriggers[k], ScoredTokens[t]))
              => ~Contains(ret.value.keywords, WinningTriggers[k])

\* "howto" wins installation_guide 15 points through "how to", and no
\* keyword is reported
C29_Witness ==
  /\ IntentCallOnString
  /\ arg = Str(Howto)
  /\ ret.value.intent = "installation_guide"
  /\ ret.value.scores["installation_guide"] = 15
  /\ ret.value.keywords = <<>>

\* the cleaned text of the request holds a character that is not
\* whitespace, and splitting it as the classifiers do gives no empty token
CleanedTextHasToken ==
  preprocessResult # None
    => /\ \E i \in 1..Len(preprocessResult.cleaned) :
             ~IsSpace(preprocessResult.cleaned[i])
       /\ ~Contains(SplitWhitespace(preprocessResult.cleaned), <<>>)

\* the control-character check rejects the characters the sanitiser strips
SameControlCharacters == RejectedControlChars = StrippedControlChars

\* C30: for every request body that passes validateChatMessage and
\* preprocessMessage, the cleaned text handed to detectScope and
\* classifyIntent holds at least one character that is not whitespace, so
\* the tokens the classifiers split it into hold no empty token; and the
\* characters the control-character check rejects are the characters the
\* sanitiser strips.
C30_CleanedTextNonEmpty == CleanedTextHasToken /\ SameControlCharacters

====
